---- MODULE Spec2Model ----
(***************************************************************************)
(* Model of the filesystem batch executors of the storage provisioner      *)
(* (worker/storageprovisioner/filesystem_ops.go): createFilesystems,       *)
(* attachFilesystems, detachFilesystems and removeFilesystems, with the    *)
(* source resolvers filesystemParamsBySource and                           *)
(* filesystemAttachmentParamsBySource.                                     *)
(*                                                                         *)
(* One executor run is one action.  The run's trace of external calls      *)
(* (registry, provider source, scheduler, controller facade), each with    *)
(* what it was given and what it returned, is kept in `calls`; the run's   *)
(* return value in `err`.  The worker loop then takes the next batch.      *)
(***************************************************************************)
EXTENDS Integers, Sequences, FiniteSets, TLC

\* ------------------------------------------------------------------ bounds
NumFilesystems == 2
NumMachines == 1
MaxBatch == 2

\* ------------------------------------------------------------------ values
FilesystemTags == 0 .. (NumFilesystems - 1)
MachineTags == 0 .. (NumMachines - 1)
Providers == {"loop", "rootfs"}

\* names.VolumeTag{}: the zero volume tag of a filesystem with no backing volume.
NoVolume == ""
Volumes == {NoVolume, "volume-0"}

\* A nil error; an error is the sequence of its message parts.
Nil == << >>
errNonDynamic == <<"non-dynamic">>
Annotate(e, msg) == <<msg>> \o e

\* Tag.String() of a filesystem / machine tag.
FilesystemString(t) == <<"filesystem", t>>
MachineString(m) == <<"machine", m>>

\* The status vocabulary used by the executors (core/status).
StatusPending == "pending"
StatusAttaching == "attaching"
StatusAttached == "attached"
StatusDetaching == "detaching"
StatusDetached == "detached"
StatusDestroying == "destroying"
StatusError == "error"

\* Source handles: the injected managed filesystem source, the dynamic source
\* of a provider type, and nil (a non-dynamic provider).
ManagedSource == [kind |-> "managed", provider |-> ""]
DynamicSource(p) == [kind |-> "dynamic", provider |-> p]
NilSource == [kind |-> "nil", provider |-> ""]

\* ------------------------------------------------------------------ helpers
Range(s) == {s[i] : i \in 1 .. Len(s)}
Perms(S) == {s \in [1 .. Cardinality(S) -> S] : \A i, j \in 1 .. Cardinality(S) : s[i] = s[j] => i = j}
SeqsUpTo(S, n) == UNION {[1 .. k -> S] : k \in 0 .. n}

\* One record of the trace of external calls.
Call(api, source, name, args, results, e) ==
    [api |-> api, source |-> source, name |-> name, args |-> args, results |-> results, err |-> e]

VARIABLES
    pc,                     \* "idle": the loop waits for a batch; otherwise the executor that just ran
    filesystems,            \* ctx.filesystems: tag -> storage.Filesystem
    filesystemAttachments,  \* ctx.filesystemAttachments: MachineStorageId -> storage.FilesystemAttachment
    ops,                    \* the batch of the last run, in the order the map was iterated
    calls,                  \* the calls of the last run, in order
    err,                    \* the error the last run returned (Nil: none)
    before,                 \* ctx.filesystems and ctx.filesystemAttachments when the last run started
    schedule,               \* ctx.schedule: the pending operations, those in flight, and the last call made
    home,                   \* package envcmd: JUJU_ENV, the files of the juju home, and the last call made
    reach                   \* package network/ssh: the last ReachableHostPort call and its result

ctxVars == <<pc, filesystems, filesystemAttachments, ops, calls, err, before>>
vars == <<pc, filesystems, filesystemAttachments, ops, calls, err, before, schedule, home, reach>>

\* ------------------------------------------------------------------ operations
\* createFilesystemOp: args storage.FilesystemParams; key() is args.Tag.
createFilesystemOp(tag, provider, volume) ==
    [args |-> [Tag |-> tag, Provider |-> provider, Volume |-> volume]]

\* A nil operation (what a map lookup gives for a key the batch does not hold).
NilOp == [args |-> << >>]

\* Faulty variant (not the code): the lookup ignores the key.
opByKey_First(batch, keys, k) ==
    IF Len(batch) = 0 THEN NilOp ELSE batch[1]

\* ops[k]: the operation registered under key k in the batch map, whose
\* keys are given in the order of the batch.
opByKey(batch, keys, k) ==
    LET hits == {i \in 1 .. Len(batch) : keys[i] = k}
    IN  IF hits = {} THEN NilOp ELSE batch[CHOOSE i \in hits : TRUE]

createKey(op) == op.args.Tag
createKeys(batch) == [i \in 1 .. Len(batch) |-> createKey(batch[i])]

\* params.MachineStorageId of a machine and a filesystem.
MachineStorageId(machine, filesystem) ==
    [MachineTag |-> MachineString(machine), AttachmentTag |-> FilesystemString(filesystem)]

\* attachFilesystemOp / detachFilesystemOp: args storage.FilesystemAttachmentParams;
\* key() is the MachineStorageId of args.Machine and args.Filesystem.
attachFilesystemOp(machine, filesystem, provider, path) ==
    [args |-> [Machine |-> machine, Filesystem |-> filesystem, Provider |-> provider, Path |-> path]]

detachFilesystemOp(machine, filesystem, provider, path) ==
    [args |-> [Machine |-> machine, Filesystem |-> filesystem, Provider |-> provider, Path |-> path]]

attachKey(op) == MachineStorageId(op.args.Machine, op.args.Filesystem)
detachKey(op) == MachineStorageId(op.args.Machine, op.args.Filesystem)
attachKeys(batch) == [i \in 1 .. Len(batch) |-> attachKey(batch[i])]
detachKeys(batch) == [i \in 1 .. Len(batch) |-> detachKey(batch[i])]

\* removeFilesystemOp: tag names.FilesystemTag; key() is the tag.
removeFilesystemOp(tag) == [tag |-> tag]
removeKey(op) == op.tag
removeKeys(batch) == [i \in 1 .. Len(batch) |-> removeKey(batch[i])]

\* ctx.config.StorageDir, an empty mount path, and filepath.Join on path elements.
StorageDir == <<"storage">>
NoPath == << >>
Paths == {NoPath, <<"mnt">>}
filepathJoin(dir, elem) == dir \o <<elem>>

\* Tag.Id() of a filesystem tag.
FilesystemTagId(t) == <<"id", t>>

\* ------------------------------------------------------------------ registry
RegistryAnswers == {"dynamic", "nonDynamic", "error"}

\* filesystemSource(baseStorageDir, sourceName, providerType, registry): the
\* dynamic source of a provider type, errNonDynamic, or another error.
filesystemSource(sourceName, registry) ==
    CASE registry[sourceName] = "dynamic" -> [source |-> DynamicSource(sourceName), err |-> Nil]
      [] registry[sourceName] = "nonDynamic" -> [source |-> NilSource, err |-> errNonDynamic]
      [] OTHER -> [source |-> NilSource, err |-> <<"no provider", sourceName>>]

\* ------------------------------------------------------------------ filesystemParamsBySource
\* Faulty variant (not the code): every registry error is taken for errNonDynamic.
resolveCreateSource_SwallowsErrors(param, registry) ==
    IF param.Volume # NoVolume
    THEN [source |-> ManagedSource, err |-> Nil, calls |-> << >>]
    ELSE LET answered(r) ==
                 LET c == <<Call("filesystemSource", NilSource, param.Provider, << >>, << >>, r.err)>>
                 IN  IF r.err # Nil
                     THEN [source |-> NilSource, err |-> Nil, calls |-> c]
                     ELSE [source |-> r.source, err |-> Nil, calls |-> c]
         IN  answered(filesystemSource(param.Provider, registry))

\* What the first loop does with a provider name that has no source yet.
resolveCreateSource(param, registry) ==
    IF param.Volume # NoVolume
    THEN [source |-> ManagedSource, err |-> Nil, calls |-> << >>]
    ELSE LET answered(r) ==
                 LET c == <<Call("filesystemSource", NilSource, param.Provider, << >>, << >>, r.err)>>
                 IN  IF r.err = errNonDynamic
                     THEN [source |-> NilSource, err |-> Nil, calls |-> c]
                     ELSE IF r.err # Nil
                          THEN [source |-> NilSource, err |-> Annotate(r.err, "getting filesystem source"),
                                calls |-> c]
                          ELSE [source |-> r.source, err |-> Nil, calls |-> c]
         IN  answered(filesystemSource(param.Provider, registry))

\* The first loop: one source per provider name, decided by the first
\* parameter seen with that name.
RECURSIVE resolveCreateSources(_, _, _, _)
resolveCreateSources(params, i, registry, acc) ==
    IF i > Len(params) \/ acc.err # Nil
    THEN acc
    ELSE LET sourceName == params[i].Provider
         IN  IF sourceName \in DOMAIN acc.sources
             THEN resolveCreateSources(params, i + 1, registry, acc)
             ELSE LET resolved(r) ==
                          resolveCreateSources(params, i + 1, registry,
                              [sources |-> IF r.err = Nil
                                           THEN acc.sources @@ (sourceName :> r.source)
                                           ELSE acc.sources,
                               err |-> r.err,
                               calls |-> acc.calls \o r.calls])
                  IN  resolved(resolveCreateSource(params[i], registry))

\* Faulty variant (not the code): the second loop keeps every parameter, nil source or not.
keepCreateParam_All(param, sources) ==
    TRUE

\* Whether the second loop keeps a parameter: its source is not nil.
keepCreateParam(param, sources) ==
    sources[param.Provider] # NilSource

\* The second loop: append each kept parameter to its provider's list.
RECURSIVE partitionCreateParams(_, _, _, _)
partitionCreateParams(params, i, sources, acc) ==
    IF i > Len(params)
    THEN acc
    ELSE LET sourceName == params[i].Provider
         IN  IF ~keepCreateParam(params[i], sources)
             THEN partitionCreateParams(params, i + 1, sources, acc)
             ELSE partitionCreateParams(params, i + 1, sources,
                      IF sourceName \in DOMAIN acc
                      THEN [acc EXCEPT ![sourceName] = Append(@, params[i])]
                      ELSE acc @@ (sourceName :> <<params[i]>>))

\* An empty map (a function with the empty domain).
EmptyMap == [x \in {} |-> x]

filesystemParamsBySource(params, registry) ==
    LET partitioned(r, paramsBySource) ==
            [paramsBySource |-> paramsBySource, filesystemSources |-> r.sources, err |-> Nil,
             calls |-> Append(r.calls, Call("filesystemParamsBySource", NilSource, "", params,
                                           <<paramsBySource, r.sources>>, Nil))]
        resolved(r) ==
            IF r.err # Nil
            THEN [paramsBySource |-> EmptyMap, filesystemSources |-> EmptyMap, err |-> r.err,
                  calls |-> Append(r.calls,
                               Call("filesystemParamsBySource", NilSource, "", params, << >>, r.err))]
            ELSE partitioned(r, partitionCreateParams(params, 1, r.sources, EmptyMap))
    IN  resolved(resolveCreateSources(params, 1, registry,
                     [sources |-> EmptyMap, err |-> Nil, calls |-> << >>]))

\* ------------------------------------------------------------------ provider source and controller (create)
\* params.EntityStatusArgs
EntityStatus(tag, status, info) == [Tag |-> tag, Status |-> status, Info |-> info]

NoFilesystem == [Tag |-> -1, FilesystemId |-> << >>, Volume |-> NoVolume]

\* FilesystemSource.ValidateFilesystemParams: the source rejects the
\* parameters of the tags in env.invalid.
ValidateFilesystemParams(param, env) ==
    IF param.Tag \in env.invalid THEN <<"invalid parameters", param.Tag>> ELSE Nil

\* FilesystemSource.CreateFilesystems: one result per parameter, in the order
\* submitted; the entities in env.failed fail, the others are created.
CreateFilesystemsResults(params, env) ==
    [i \in 1 .. Len(params) |->
        IF params[i].Tag \in env.failed
        THEN [Error |-> <<"cannot create", params[i].Tag>>, Filesystem |-> NoFilesystem]
        ELSE [Error |-> Nil,
              Filesystem |-> [Tag |-> params[i].Tag,
                              FilesystemId |-> <<"fs-id", params[i].Tag>>,
                              Volume |-> params[i].Volume]]]

\* The top-level error of a bulk provider call on a source.
BulkError(sourceName, env) ==
    IF sourceName = env.failSource THEN <<"provider unavailable", sourceName>> ELSE Nil

\* Filesystems.SetFilesystemInfo: one ErrorResult per record, in order.
SetFilesystemInfoResults(records, env) ==
    [i \in 1 .. Len(records) |->
        IF records[i].FilesystemTag \in {FilesystemString(t) : t \in env.rejected}
        THEN [Error |-> <<"rejected", records[i].FilesystemTag>>]
        ELSE [Error |-> Nil]]

\* updateFilesystem(ctx, info): the filesystem is merged into ctx.filesystems.
updateFilesystem(cache, info) ==
    IF info.Tag \in DOMAIN cache
    THEN [cache EXCEPT ![info.Tag] = info]
    ELSE cache @@ (info.Tag :> info)

RECURSIVE updateFilesystems(_, _, _)
updateFilesystems(cache, fss, i) ==
    IF i > Len(fss) THEN cache ELSE updateFilesystems(updateFilesystem(cache, fss[i]), fss, i + 1)

\* ------------------------------------------------------------------ createFilesystems
\* Faulty variant (not the code): the rejected parameters stay in the list of valid parameters.
RECURSIVE validateFilesystemParams_KeepsInvalid(_, _, _, _, _, _)
validateFilesystemParams_KeepsInvalid(source, sourceName, filesystemParams, i, env, acc) ==
    IF i > Len(filesystemParams)
    THEN acc
    ELSE LET e == ValidateFilesystemParams(filesystemParams[i], env)
         IN  validateFilesystemParams_KeepsInvalid(source, sourceName, filesystemParams, i + 1, env,
                 [valid |-> Append(acc.valid, filesystemParams[i]),
                  results |-> Append(acc.results, e),
                  calls |-> Append(acc.calls,
                               Call("ValidateFilesystemParams", source, sourceName,
                                    <<filesystemParams[i]>>, << >>, e))])

\* validateFilesystemParams: the valid parameters in order, and one
\* validation result per parameter.
RECURSIVE validateFilesystemParams(_, _, _, _, _, _)
validateFilesystemParams(source, sourceName, filesystemParams, i, env, acc) ==
    IF i > Len(filesystemParams)
    THEN acc
    ELSE LET e == ValidateFilesystemParams(filesystemParams[i], env)
         IN  validateFilesystemParams(source, sourceName, filesystemParams, i + 1, env,
                 [valid |-> IF e = Nil THEN Append(acc.valid, filesystemParams[i]) ELSE acc.valid,
                  results |-> Append(acc.results, e),
                  calls |-> Append(acc.calls,
                               Call("ValidateFilesystemParams", source, sourceName,
                                    <<filesystemParams[i]>>, << >>, e))])

\* The status of an entity whose parameters failed validation.
validationErrorStatus(param, e) ==
    EntityStatus(FilesystemString(param.Tag), StatusError, e)

\* The loop over validationErrors: a status for each non-nil error, carrying
\* the tag of the parameter at the same index.
RECURSIVE validationStatuses(_, _, _, _)
validationStatuses(filesystemParams, validationErrors, i, statuses) ==
    IF i > Len(validationErrors)
    THEN statuses
    ELSE validationStatuses(filesystemParams, validationErrors, i + 1,
             IF validationErrors[i] = Nil
             THEN statuses
             ELSE Append(statuses, validationErrorStatus(filesystemParams[i], validationErrors[i])))

\* Faulty variant (not the code): the results are attributed by index into the unfiltered parameters.
createResultParam_Unfiltered(validFilesystemParams, allFilesystemParams, i) ==
    allFilesystemParams[i]

\* filesystemParams[i] in the loop over the results: filesystemParams has
\* been reassigned to the valid parameters.
createResultParam(validFilesystemParams, allFilesystemParams, i) ==
    validFilesystemParams[i]

\* Faulty variant (not the code): a failed creation is reported as "error".
createResultStatus_Error(param, result) ==
    IF result.Error # Nil
    THEN EntityStatus(FilesystemString(param.Tag), StatusError, result.Error)
    ELSE EntityStatus(FilesystemString(param.Tag), StatusAttaching, Nil)

\* The status appended for a result: "attaching", turned into "pending" with
\* the error text when the result carries an error.
createResultStatus(param, result) ==
    IF result.Error # Nil
    THEN EntityStatus(FilesystemString(param.Tag), StatusPending, result.Error)
    ELSE EntityStatus(FilesystemString(param.Tag), StatusAttaching, Nil)

\* What one result adds to the accumulators of the batch.
createResult(batch, param, result, acc) ==
    IF result.Error # Nil
    THEN [acc EXCEPT !.reschedule = Append(@, opByKey(batch, createKeys(batch), param.Tag)),
                     !.statuses = Append(@, createResultStatus(param, result))]
    ELSE [acc EXCEPT !.statuses = Append(@, createResultStatus(param, result)),
                     !.filesystems = Append(@, result.Filesystem)]

RECURSIVE createResults(_, _, _, _, _, _)
createResults(batch, validParams, allParams, results, i, acc) ==
    IF i > Len(results)
    THEN acc
    ELSE createResults(batch, validParams, allParams, results, i + 1,
             createResult(batch, createResultParam(validParams, allParams, i), results[i], acc))

\* The body of the loop over paramsBySource, for one source.
createFromSource(batch, sourceName, filesystemSource_, filesystemParams, env, acc) ==
    LET submitted(valid, acc1) ==
            IF Len(valid) = 0
            THEN acc1
            ELSE LET e == BulkError(sourceName, env)
                     results == IF e = Nil THEN CreateFilesystemsResults(valid, env) ELSE << >>
                     acc2 == [acc1 EXCEPT !.calls = Append(@,
                                  Call("CreateFilesystems", filesystemSource_, sourceName, valid, results, e))]
                 IN  IF e # Nil
                     THEN [acc2 EXCEPT !.err = Annotate(e, "creating filesystems from source")]
                     ELSE createResults(batch, valid, filesystemParams, results, 1, acc2)
        validated(v) ==
            submitted(v.valid,
                      [acc EXCEPT !.calls = @ \o v.calls,
                                  !.statuses = validationStatuses(filesystemParams, v.results, 1, @)])
    IN  validated(validateFilesystemParams(filesystemSource_, sourceName, filesystemParams, 1, env,
                      [valid |-> << >>, results |-> << >>, calls |-> << >>]))

\* for sourceName, filesystemParams := range paramsBySource, in the order the
\* map happens to be iterated; a top-level error returns at once.
RECURSIVE createLoop(_, _, _, _, _, _)
createLoop(batch, order, k, r, env, acc) ==
    IF k > Len(order) \/ acc.err # Nil
    THEN acc
    ELSE createLoop(batch, order, k + 1, r, env,
             createFromSource(batch, order[k], r.filesystemSources[order[k]],
                              r.paramsBySource[order[k]], env, acc))

\* filesystemsFromStorage: storage.Filesystem -> params.Filesystem.
filesystemsFromStorage(in) ==
    [i \in 1 .. Len(in) |->
        [FilesystemTag |-> FilesystemString(in[i].Tag),
         VolumeTag |-> IF in[i].Volume # NoVolume THEN in[i].Volume ELSE "",
         Info |-> [FilesystemId |-> in[i].FilesystemId, Pool |-> ""]]]

\* Faulty variant (not the code): the accumulated lists are flushed twice.
flush_Twice(acc) ==
    acc.calls \o <<Call("scheduleOperations", NilSource, "", acc.reschedule, << >>, Nil),
                   Call("setStatus", NilSource, "", acc.statuses, << >>, Nil),
                   Call("scheduleOperations", NilSource, "", acc.reschedule, << >>, Nil),
                   Call("setStatus", NilSource, "", acc.statuses, << >>, Nil)>>

\* The flush of the accumulated reschedules and statuses.
flush(acc) ==
    acc.calls \o <<Call("scheduleOperations", NilSource, "", acc.reschedule, << >>, Nil),
                   Call("setStatus", NilSource, "", acc.statuses, << >>, Nil)>>

\* The created filesystems whose record the controller accepted.
acceptedFilesystems(created, results) ==
    LET idx == SelectSeq([i \in 1 .. Len(created) |-> i], LAMBDA i : results[i].Error = Nil)
    IN  [j \in 1 .. Len(idx) |-> created[idx[j]]]

\* Faulty variant (not the code): a filesystem whose record the controller rejected is left out of
\* the cache.
publishFilesystems_SkipRejected(cache, created, env, log) ==
    IF Len(created) = 0
    THEN [calls |-> log, err |-> Nil, filesystems |-> cache]
    ELSE LET records == filesystemsFromStorage(created)
             e == IF env.setInfoErr THEN <<"connection lost">> ELSE Nil
             results == IF e = Nil THEN SetFilesystemInfoResults(records, env) ELSE << >>
             log1 == Append(log, Call("SetFilesystemInfo", NilSource, "", records, results, e))
         IN  IF e # Nil
             THEN [calls |-> log1, err |-> Annotate(e, "publishing filesystems to state"),
                   filesystems |-> cache]
             ELSE [calls |-> log1, err |-> Nil,
                   filesystems |-> updateFilesystems(cache, acceptedFilesystems(created, results), 1)]

\* After the flush: publish the created filesystems and update the cache.
publishFilesystems_CacheFirst(cache, created, env, log) ==
    IF Len(created) = 0
    THEN [calls |-> log, err |-> Nil, filesystems |-> cache]
    ELSE LET records == filesystemsFromStorage(created)
             e == IF env.setInfoErr THEN <<"connection lost">> ELSE Nil
             results == IF e = Nil THEN SetFilesystemInfoResults(records, env) ELSE << >>
             log1 == Append(log, Call("SetFilesystemInfo", NilSource, "", records, results, e))
         IN  [calls |-> log1,
              err |-> IF e # Nil THEN Annotate(e, "publishing filesystems to state") ELSE Nil,
              filesystems |-> updateFilesystems(cache, created, 1)]

publishFilesystems(cache, created, env, log) ==
    IF Len(created) = 0
    THEN [calls |-> log, err |-> Nil, filesystems |-> cache]
    ELSE LET records == filesystemsFromStorage(created)
             e == IF env.setInfoErr THEN <<"connection lost">> ELSE Nil
             results == IF e = Nil THEN SetFilesystemInfoResults(records, env) ELSE << >>
             log1 == Append(log, Call("SetFilesystemInfo", NilSource, "", records, results, e))
         IN  IF e # Nil
             THEN [calls |-> log1, err |-> Annotate(e, "publishing filesystems to state"),
                   filesystems |-> cache]
             ELSE [calls |-> log1, err |-> Nil,
                   filesystems |-> updateFilesystems(cache, created, 1)]

\* createFilesystems(ctx, ops): the whole executor.  The result holds the
\* trace of calls, the returned error and ctx.filesystems afterwards.
createFilesystems(cache, batch, env) ==
    LET looped(acc) ==
            IF acc.err # Nil
            THEN [calls |-> acc.calls, err |-> acc.err, filesystems |-> cache]
            ELSE publishFilesystems(cache, acc.filesystems, env, flush(acc))
        resolved(r) ==
            IF r.err # Nil
            THEN [calls |-> r.calls, err |-> r.err, filesystems |-> cache]
            ELSE looped(createLoop(batch, env.order, 1, r, env,
                            [calls |-> r.calls, reschedule |-> << >>, filesystems |-> << >>,
                             statuses |-> << >>, err |-> Nil]))
    IN  resolved(filesystemParamsBySource([i \in 1 .. Len(batch) |-> batch[i].args], env.registry))

\* ------------------------------------------------------------------ filesystemAttachmentParamsBySource
\* Faulty variant (not the code): a filesystem absent from the cache is
\* resolved through the registry like one without a backing volume.
resolveAttachSource_AsksRegistry(param, cache, registry) ==
    IF param.Filesystem \in DOMAIN cache /\ cache[param.Filesystem].Volume # NoVolume
    THEN [source |-> ManagedSource, err |-> Nil, calls |-> << >>]
    ELSE LET answered(r) ==
                 LET c == <<Call("filesystemSource", NilSource, param.Provider, << >>, << >>, r.err)>>
                 IN  IF r.err # Nil
                     THEN [source |-> NilSource, err |-> Annotate(r.err, "getting filesystem source"),
                           calls |-> c]
                     ELSE [source |-> r.source, err |-> Nil, calls |-> c]
         IN  answered(filesystemSource(param.Provider, registry))

\* What the loop does with a provider name that has no source yet: the
\* managed source when the filesystem is unknown or volume-backed, otherwise
\* the registry's source; any registry error is returned.
resolveAttachSource(param, cache, registry) ==
    IF param.Filesystem \notin DOMAIN cache
    THEN [source |-> ManagedSource, err |-> Nil, calls |-> << >>]
    ELSE IF cache[param.Filesystem].Volume # NoVolume
         THEN [source |-> ManagedSource, err |-> Nil, calls |-> << >>]
         ELSE LET answered(r) ==
                      LET c == <<Call("filesystemSource", NilSource, param.Provider, << >>, << >>, r.err)>>
                      IN  IF r.err # Nil
                          THEN [source |-> NilSource, err |-> Annotate(r.err, "getting filesystem source"),
                                calls |-> c]
                          ELSE [source |-> r.source, err |-> Nil, calls |-> c]
              IN  answered(filesystemSource(param.Provider, registry))

RECURSIVE attachParamsLoop(_, _, _, _, _)
attachParamsLoop(params, i, cache, registry, acc) ==
    IF i > Len(params) \/ acc.err # Nil
    THEN acc
    ELSE LET sourceName == params[i].Provider
             appended == IF sourceName \in DOMAIN acc.paramsBySource
                         THEN [acc.paramsBySource EXCEPT ![sourceName] = Append(@, params[i])]
                         ELSE acc.paramsBySource @@ (sourceName :> <<params[i]>>)
         IN  IF sourceName \in DOMAIN acc.sources
             THEN attachParamsLoop(params, i + 1, cache, registry,
                      [acc EXCEPT !.paramsBySource = appended])
             ELSE LET resolved(r) ==
                          attachParamsLoop(params, i + 1, cache, registry,
                              [paramsBySource |-> appended,
                               sources |-> IF r.err = Nil
                                           THEN acc.sources @@ (sourceName :> r.source)
                                           ELSE acc.sources,
                               err |-> r.err,
                               calls |-> acc.calls \o r.calls])
                  IN  resolved(resolveAttachSource(params[i], cache, registry))

\* Faulty variant (not the code): errNonDynamic is handled as in the create
\* path, no error and no source for the provider name, whose parameters are
\* already in the partition.
filesystemAttachmentParamsBySource_NonDynamicUnbound(params, cache, registry) ==
    LET lenient == [p \in Providers |-> IF registry[p] = "nonDynamic" THEN "dynamic" ELSE registry[p]]
        bound(r) == {n \in DOMAIN r.sources :
                        ~(registry[n] = "nonDynamic" /\ r.sources[n] = DynamicSource(n))}
        returned(r, sources) ==
            [paramsBySource |-> r.paramsBySource, filesystemSources |-> sources, err |-> Nil,
             calls |-> Append(r.calls, Call("filesystemAttachmentParamsBySource", NilSource, "",
                                           params, <<r.paramsBySource, sources>>, Nil))]
        resolved(r) ==
            IF r.err # Nil
            THEN [paramsBySource |-> EmptyMap, filesystemSources |-> EmptyMap, err |-> r.err,
                  calls |-> Append(r.calls, Call("filesystemAttachmentParamsBySource", NilSource, "",
                                                params, << >>, r.err))]
            ELSE returned(r, [n \in bound(r) |-> r.sources[n]])
    IN  resolved(attachParamsLoop(params, 1, cache, lenient,
                     [paramsBySource |-> EmptyMap, sources |-> EmptyMap, err |-> Nil, calls |-> << >>]))

filesystemAttachmentParamsBySource(params, cache, registry) ==
    LET resolved(r) ==
            IF r.err # Nil
            THEN [paramsBySource |-> EmptyMap, filesystemSources |-> EmptyMap, err |-> r.err,
                  calls |-> Append(r.calls, Call("filesystemAttachmentParamsBySource", NilSource, "",
                                                params, << >>, r.err))]
            ELSE [paramsBySource |-> r.paramsBySource, filesystemSources |-> r.sources, err |-> Nil,
                  calls |-> Append(r.calls, Call("filesystemAttachmentParamsBySource", NilSource, "",
                                                params, <<r.paramsBySource, r.sources>>, Nil))]
    IN  resolved(attachParamsLoop(params, 1, cache, registry,
                     [paramsBySource |-> EmptyMap, sources |-> EmptyMap, err |-> Nil, calls |-> << >>]))

\* ------------------------------------------------------------------ provider source and controller (attach, detach)
NoAttachment == [Filesystem |-> -1, Machine |-> -1, Path |-> NoPath]

paramKey(param) == MachineStorageId(param.Machine, param.Filesystem)

\* FilesystemSource.AttachFilesystems: one result per parameter, in order.
AttachFilesystemsResults(params, env) ==
    [i \in 1 .. Len(params) |->
        IF paramKey(params[i]) \in env.failed
        THEN [Error |-> <<"cannot attach", params[i].Filesystem, params[i].Machine>>,
              FilesystemAttachment |-> NoAttachment]
        ELSE [Error |-> Nil,
              FilesystemAttachment |-> [Filesystem |-> params[i].Filesystem,
                                        Machine |-> params[i].Machine,
                                        Path |-> params[i].Path]]]

\* FilesystemSource.DetachFilesystems: one error (or nil) per parameter, in order.
DetachFilesystemsResults(params, env) ==
    [i \in 1 .. Len(params) |->
        IF paramKey(params[i]) \in env.failed
        THEN [Error |-> <<"cannot detach", params[i].Filesystem, params[i].Machine>>]
        ELSE [Error |-> Nil]]

\* Filesystems.SetFilesystemAttachmentInfo: one ErrorResult per record, in order.
SetFilesystemAttachmentInfoResults(records, env) ==
    [i \in 1 .. Len(records) |->
        IF [MachineTag |-> records[i].MachineTag, AttachmentTag |-> records[i].FilesystemTag] \in env.rejected
        THEN [Error |-> <<"rejected", records[i].FilesystemTag, records[i].MachineTag>>]
        ELSE [Error |-> Nil]]

\* ------------------------------------------------------------------ attachFilesystems
\* Faulty variant (not the code): an empty path is submitted as it is.
attachArgs_NoDefault(op) == op.args

\* The parameters of an operation, with the default mount path.
attachArgs(op) ==
    IF op.args.Path = NoPath
    THEN [op.args EXCEPT !.Path = filepathJoin(StorageDir, FilesystemTagId(op.args.Filesystem))]
    ELSE op.args

\* Faulty variant (not the code): a failed attachment is reported as "error".
attachResultStatus_Error(param, result) ==
    IF result.Error # Nil
    THEN EntityStatus(FilesystemString(param.Filesystem), StatusError, result.Error)
    ELSE EntityStatus(FilesystemString(param.Filesystem), StatusAttached, Nil)

\* The status appended for a result: "attached", turned into "attaching"
\* with the error text when the result carries an error.
attachResultStatus(param, result) ==
    IF result.Error # Nil
    THEN EntityStatus(FilesystemString(param.Filesystem), StatusAttaching, result.Error)
    ELSE EntityStatus(FilesystemString(param.Filesystem), StatusAttached, Nil)

attachResult(batch, param, result, acc) ==
    IF result.Error # Nil
    THEN [acc EXCEPT !.reschedule = Append(@, opByKey(batch, attachKeys(batch), paramKey(param))),
                     !.statuses = Append(@, attachResultStatus(param, result))]
    ELSE [acc EXCEPT !.statuses = Append(@, attachResultStatus(param, result)),
                     !.attachments = Append(@, result.FilesystemAttachment)]

RECURSIVE attachResults(_, _, _, _, _)
attachResults(batch, params, results, i, acc) ==
    IF i > Len(results)
    THEN acc
    ELSE attachResults(batch, params, results, i + 1, attachResult(batch, params[i], results[i], acc))

attachFromSource(batch, sourceName, filesystemSource_, params, env, acc) ==
    LET e == BulkError(sourceName, env)
        results == IF e = Nil THEN AttachFilesystemsResults(params, env) ELSE << >>
        acc1 == [acc EXCEPT !.calls = Append(@,
                     Call("AttachFilesystems", filesystemSource_, sourceName, params, results, e))]
    IN  IF e # Nil
        THEN [acc1 EXCEPT !.err = Annotate(e, "attaching filesystems from source")]
        ELSE attachResults(batch, params, results, 1, acc1)

RECURSIVE attachLoop(_, _, _, _, _, _)
attachLoop(batch, order, k, r, env, acc) ==
    IF k > Len(order) \/ acc.err # Nil
    THEN acc
    ELSE attachLoop(batch, order, k + 1, r, env,
             IF order[k] \notin DOMAIN r.filesystemSources
             THEN [acc EXCEPT !.err = <<"panic: nil filesystem source">>]
             ELSE attachFromSource(batch, order[k], r.filesystemSources[order[k]],
                                   r.paramsBySource[order[k]], env, acc))

\* filesystemAttachmentsFromStorage: storage.FilesystemAttachment -> params.FilesystemAttachment.
filesystemAttachmentsFromStorage(in) ==
    [i \in 1 .. Len(in) |->
        [FilesystemTag |-> FilesystemString(in[i].Filesystem),
         MachineTag |-> MachineString(in[i].Machine),
         Info |-> [MountPoint |-> in[i].Path]]]

\* ctx.filesystemAttachments[id] = attachment
recordAttachment(cache, attachment) ==
    LET id == MachineStorageId(attachment.Machine, attachment.Filesystem)
    IN  IF id \in DOMAIN cache
        THEN [cache EXCEPT ![id] = attachment]
        ELSE cache @@ (id :> attachment)

\* Faulty variant (not the code): a record the controller rejected is cached
\* like an accepted one.
attachmentRejected_Records(attachment, result, acc) ==
    [acc EXCEPT !.filesystemAttachments = recordAttachment(@, attachment)]

\* What the loop over the error results does with one record whose result
\* carries an error: it returns that error at once.
attachmentRejected(attachment, result, acc) ==
    [acc EXCEPT !.err = Annotate(result.Error, "publishing attachment to state")]

\* The loop over the error results of SetFilesystemAttachmentInfo.
RECURSIVE recordAttachments(_, _, _, _)
recordAttachments(attachments, results, i, acc) ==
    IF i > Len(results) \/ acc.err # Nil
    THEN acc
    ELSE IF results[i].Error # Nil
         THEN recordAttachments(attachments, results, i + 1,
                  attachmentRejected(attachments[i], results[i], acc))
         ELSE recordAttachments(attachments, results, i + 1,
                  [acc EXCEPT !.filesystemAttachments = recordAttachment(@, attachments[i]),
                              !.calls = Append(@, Call("removePendingFilesystemAttachment", NilSource, "",
                                  <<MachineStorageId(attachments[i].Machine, attachments[i].Filesystem)>>,
                                  << >>, Nil))])

setFilesystemAttachmentInfo(cache, attachments, env, log) ==
    IF Len(attachments) = 0
    THEN [calls |-> log, err |-> Nil, filesystemAttachments |-> cache]
    ELSE LET records == filesystemAttachmentsFromStorage(attachments)
             e == IF env.setInfoErr THEN <<"connection lost">> ELSE Nil
             results == IF e = Nil THEN SetFilesystemAttachmentInfoResults(records, env) ELSE << >>
             log1 == Append(log, Call("SetFilesystemAttachmentInfo", NilSource, "", records, results, e))
         IN  IF e # Nil
             THEN [calls |-> log1, err |-> Annotate(e, "publishing filesystems to state"),
                   filesystemAttachments |-> cache]
             ELSE recordAttachments(attachments, results, 1,
                      [calls |-> log1, err |-> Nil, filesystemAttachments |-> cache])

\* attachFilesystems(ctx, ops): the whole executor.
attachFilesystems(fsCache, cache, batch, env) ==
    LET looped(acc) ==
            IF acc.err # Nil
            THEN [calls |-> acc.calls, err |-> acc.err, filesystemAttachments |-> cache]
            ELSE setFilesystemAttachmentInfo(cache, acc.attachments, env, flush(acc))
        resolved(r) ==
            IF r.err # Nil
            THEN [calls |-> r.calls, err |-> r.err, filesystemAttachments |-> cache]
            ELSE looped(attachLoop(batch, env.order, 1, r, env,
                            [calls |-> r.calls, reschedule |-> << >>, attachments |-> << >>,
                             statuses |-> << >>, err |-> Nil]))
    IN  resolved(filesystemAttachmentParamsBySource([i \in 1 .. Len(batch) |-> attachArgs(batch[i])],
                                                    fsCache, env.registry))

\* ------------------------------------------------------------------ detachFilesystems
\* removeAttachments(ctx, ids): the controller is asked to remove the
\* attachments; nothing is sent for an empty list.
removeAttachments(ids, env, log) ==
    IF Len(ids) = 0
    THEN [calls |-> log, err |-> Nil]
    ELSE LET e == IF env.removeErr THEN <<"connection lost">> ELSE Nil
         IN  [calls |-> Append(log, Call("removeAttachments", NilSource, "", ids, << >>, e)), err |-> e]

detachResultStatus(param, result) ==
    IF result.Error # Nil
    THEN EntityStatus(FilesystemString(param.Filesystem), StatusDetaching, result.Error)
    ELSE EntityStatus(FilesystemString(param.Filesystem), StatusDetached, Nil)

detachResult(batch, param, result, acc) ==
    IF result.Error # Nil
    THEN [acc EXCEPT !.reschedule = Append(@, opByKey(batch, detachKeys(batch), paramKey(param))),
                     !.statuses = Append(@, detachResultStatus(param, result))]
    ELSE [acc EXCEPT !.statuses = Append(@, detachResultStatus(param, result)),
                     !.remove = Append(@, paramKey(param))]

RECURSIVE detachResults(_, _, _, _, _)
detachResults(batch, params, results, i, acc) ==
    IF i > Len(results)
    THEN acc
    ELSE detachResults(batch, params, results, i + 1, detachResult(batch, params[i], results[i], acc))

\* The body of the loop over paramsBySource, for one source.  A lookup miss
\* is skipped in a CAAS model; otherwise the call is made on a nil source.
detachFromSource(batch, sourceName, sources, params, env, acc) ==
    IF sourceName \notin DOMAIN sources
    THEN IF env.caas
         THEN acc
         ELSE [acc EXCEPT !.err = <<"panic: nil filesystem source">>]
    ELSE LET e == BulkError(sourceName, env)
             results == IF e = Nil THEN DetachFilesystemsResults(params, env) ELSE << >>
             acc1 == [acc EXCEPT !.calls = Append(@,
                          Call("DetachFilesystems", sources[sourceName], sourceName, params, results, e))]
         IN  IF e # Nil
             THEN [acc1 EXCEPT !.err = Annotate(e, "detaching filesystems from source")]
             ELSE detachResults(batch, params, results, 1, acc1)

RECURSIVE detachLoop(_, _, _, _, _, _)
detachLoop(batch, order, k, r, env, acc) ==
    IF k > Len(order) \/ acc.err # Nil
    THEN acc
    ELSE detachLoop(batch, order, k + 1, r, env,
             detachFromSource(batch, order[k], r.filesystemSources, r.paramsBySource[order[k]], env, acc))

\* Faulty variant (not the code): the cache keeps the removed attachments.
deleteAttachments_None(cache, ids) ==
    cache

\* delete(ctx.filesystemAttachments, id) for each removed id.
deleteAttachments(cache, ids) ==
    [id \in DOMAIN cache \ Range(ids) |-> cache[id]]

\* detachFilesystems(ctx, ops): the whole executor.
detachFilesystems(fsCache, cache, batch, env) ==
    LET removed(acc, out) ==
            IF out.err # Nil
            THEN [calls |-> out.calls,
                  err |-> Annotate(out.err, "removing attachments from state"),
                  filesystemAttachments |-> cache]
            ELSE [calls |-> out.calls, err |-> Nil,
                  filesystemAttachments |-> deleteAttachments(cache, acc.remove)]
        looped(acc) ==
            IF acc.err # Nil
            THEN [calls |-> acc.calls, err |-> acc.err, filesystemAttachments |-> cache]
            ELSE removed(acc, removeAttachments(acc.remove, env, flush(acc)))
        resolved(r) ==
            IF r.err # Nil
            THEN [calls |-> r.calls, err |-> r.err, filesystemAttachments |-> cache]
            ELSE looped(detachLoop(batch, env.order, 1, r, env,
                            [calls |-> r.calls, reschedule |-> << >>, remove |-> << >>,
                             statuses |-> << >>, err |-> Nil]))
    IN  resolved(filesystemAttachmentParamsBySource([i \in 1 .. Len(batch) |-> batch[i].args],
                                                    fsCache, env.registry))

\* ------------------------------------------------------------------ removeFilesystems
\* removeFilesystemParams(ctx, tags): the controller's removal parameters
\* (provider, destroy flag, filesystem id), one per tag.
removeFilesystemParams(tags, env) ==
    LET e == IF env.paramsErr THEN <<"connection lost">> ELSE Nil
        results == IF e = Nil THEN [i \in 1 .. Len(tags) |-> env.removeParams[tags[i]]] ELSE << >>
    IN  [params |-> results, err |-> e,
         calls |-> <<Call("removeFilesystemParams", NilSource, "", tags, results, e)>>]

\* FilesystemSource.DestroyFilesystems / ReleaseFilesystems: one error (or
\* nil) per filesystem id, in order.
RemoveFilesystemsResults(tags, ids, env) ==
    [i \in 1 .. Len(ids) |->
        IF tags[i] \in env.failed THEN [Error |-> <<"cannot remove", ids[i]>>] ELSE [Error |-> Nil]]

\* Faulty variant (not the code): the lists are swapped.
toDestroy_Inverted(args) == ~args.Destroy

\* Which list an entity goes to: the destroy list iff its Destroy flag is set.
toDestroy(args) == args.Destroy

RECURSIVE partitionRemoveFilesystemParams(_, _, _, _)
partitionRemoveFilesystemParams(removeTags, removeParams, i, acc) ==
    IF i > Len(removeParams)
    THEN acc
    ELSE partitionRemoveFilesystemParams(removeTags, removeParams, i + 1,
             IF toDestroy(removeParams[i])
             THEN [acc EXCEPT !.destroyTags = Append(@, removeTags[i]),
                              !.destroyIds = Append(@, removeParams[i].FilesystemId)]
             ELSE [acc EXCEPT !.releaseTags = Append(@, removeTags[i]),
                              !.releaseIds = Append(@, removeParams[i].FilesystemId)])

\* Faulty variant (not the code): a failed removal is reported as "error".
removeResultStatus_Error(tag, result) ==
    EntityStatus(FilesystemString(tag), StatusError, result.Error)

\* The status appended for a failed removal: "destroying" with the error text.
removeResultStatus(tag, result) ==
    EntityStatus(FilesystemString(tag), StatusDestroying, result.Error)

removeResult(batch, tag, result, acc) ==
    IF result.Error = Nil
    THEN [acc EXCEPT !.remove = Append(@, FilesystemString(tag))]
    ELSE [acc EXCEPT !.reschedule = Append(@, opByKey(batch, removeKeys(batch), tag)),
                     !.statuses = Append(@, removeResultStatus(tag, result))]

RECURSIVE removeResults(_, _, _, _, _)
removeResults(batch, tags, results, i, acc) ==
    IF i > Len(results)
    THEN acc
    ELSE removeResults(batch, tags, results, i + 1, removeResult(batch, tags[i], results[i], acc))

\* Faulty variant (not the code): a top-level error of the bulk call is
\* dropped and the batch goes on.
removeWith_IgnoresError(batch, tags, ids, api, sourceName, filesystemSource_, env, acc) ==
    IF Len(ids) = 0 \/ acc.err # Nil
    THEN acc
    ELSE LET e == IF env.failApi = api THEN BulkError(sourceName, env) ELSE Nil
             results == IF e = Nil THEN RemoveFilesystemsResults(tags, ids, env) ELSE << >>
             acc1 == [acc EXCEPT !.calls = Append(@,
                          Call(api, filesystemSource_, sourceName, ids, results, e))]
         IN  IF e # Nil
             THEN acc1
             ELSE removeResults(batch, tags, results, 1, acc1)

\* The closure removeFilesystems(tags, ids, f) with f the source's
\* DestroyFilesystems or ReleaseFilesystems.
removeWith(batch, tags, ids, api, sourceName, filesystemSource_, env, acc) ==
    IF Len(ids) = 0 \/ acc.err # Nil
    THEN acc
    ELSE LET e == IF env.failApi = api THEN BulkError(sourceName, env) ELSE Nil
             results == IF e = Nil THEN RemoveFilesystemsResults(tags, ids, env) ELSE << >>
             acc1 == [acc EXCEPT !.calls = Append(@,
                          Call(api, filesystemSource_, sourceName, ids, results, e))]
         IN  IF e # Nil
             THEN [acc1 EXCEPT !.err = e]
             ELSE removeResults(batch, tags, results, 1, acc1)

removeFromSource(batch, sourceName, filesystemSource_, filesystemParams, removeParamsByTag, env, acc) ==
    LET removeTags == [i \in 1 .. Len(filesystemParams) |-> filesystemParams[i].Tag]
        removeParams == [i \in 1 .. Len(filesystemParams) |-> removeParamsByTag[filesystemParams[i].Tag]]
        partitioned(p) ==
            removeWith(batch, p.releaseTags, p.releaseIds, "ReleaseFilesystems",
                       sourceName, filesystemSource_, env,
                       removeWith(batch, p.destroyTags, p.destroyIds, "DestroyFilesystems",
                                  sourceName, filesystemSource_, env,
                                  [acc EXCEPT !.calls = Append(@,
                                       Call("partitionRemoveFilesystemParams", NilSource, sourceName,
                                            <<removeTags, removeParams>>,
                                            <<p.destroyTags, p.destroyIds, p.releaseTags, p.releaseIds>>,
                                            Nil))]))
    IN  partitioned(partitionRemoveFilesystemParams(removeTags, removeParams, 1,
                        [destroyTags |-> << >>, destroyIds |-> << >>,
                         releaseTags |-> << >>, releaseIds |-> << >>]))

RECURSIVE removeLoop(_, _, _, _, _, _, _)
removeLoop(batch, order, k, r, removeParamsByTag, env, acc) ==
    IF k > Len(order) \/ acc.err # Nil
    THEN acc
    ELSE removeLoop(batch, order, k + 1, r, removeParamsByTag, env,
             removeFromSource(batch, order[k], r.filesystemSources[order[k]],
                              r.paramsBySource[order[k]], removeParamsByTag, env, acc))

\* removeEntities(ctx, tags): the controller is asked to remove the entities;
\* nothing is sent for an empty list.
removeEntities(tags, env, log) ==
    IF Len(tags) = 0
    THEN [calls |-> log, err |-> Nil]
    ELSE LET e == IF env.removeErr THEN <<"connection lost">> ELSE Nil
         IN  [calls |-> Append(log, Call("removeEntities", NilSource, "", tags, << >>, e)), err |-> e]

\* The filesystem parameters built from the removal parameters: tag and
\* provider only (no volume).
removeAsFilesystemParams(tags, removeParams) ==
    [i \in 1 .. Len(removeParams) |->
        [Tag |-> tags[i], Provider |-> removeParams[i].Provider, Volume |-> NoVolume]]

\* removeFilesystems(ctx, ops): the whole executor.
removeFilesystems(batch, env) ==
    LET tags == [i \in 1 .. Len(batch) |-> batch[i].tag]
        removeParamsByTag == [t \in Range(tags) |-> env.removeParams[t]]
        removed(out) ==
            IF out.err # Nil
            THEN [calls |-> out.calls, err |-> Annotate(out.err, "removing filesystems from state")]
            ELSE [calls |-> out.calls, err |-> Nil]
        looped(acc) ==
            IF acc.err # Nil
            THEN [calls |-> acc.calls, err |-> acc.err]
            ELSE removed(removeEntities(acc.remove, env, flush(acc)))
        resolved(rp, r) ==
            IF r.err # Nil
            THEN [calls |-> rp.calls \o r.calls, err |-> r.err]
            ELSE looped(removeLoop(batch, env.order, 1, r, removeParamsByTag, env,
                            [calls |-> rp.calls \o r.calls, reschedule |-> << >>,
                             remove |-> << >>, statuses |-> << >>, err |-> Nil]))
        fetched(rp) ==
            IF rp.err # Nil
            THEN [calls |-> rp.calls, err |-> rp.err]
            ELSE resolved(rp, filesystemParamsBySource(removeAsFilesystemParams(tags, rp.params),
                                                       env.registry))
    IN  fetched(removeFilesystemParams(tags, env))

\* ------------------------------------------------------------------ batches and environments
\* A batch is a map: no two of its operations have the same key.
DistinctKeys(keys) ==
    \A i, j \in 1 .. Len(keys) : keys[i] = keys[j] => i = j

CreateOps == {createFilesystemOp(t, p, v) : t \in FilesystemTags, p \in Providers, v \in Volumes}
CreateBatches == {b \in SeqsUpTo(CreateOps, MaxBatch) : DistinctKeys(createKeys(b))}

AttachOps == {attachFilesystemOp(m, t, p, path) :
                 m \in MachineTags, t \in FilesystemTags, p \in Providers, path \in Paths}
AttachBatches == {b \in SeqsUpTo(AttachOps, MaxBatch) : DistinctKeys(attachKeys(b))}

DetachOps == {detachFilesystemOp(m, t, p, path) :
                 m \in MachineTags, t \in FilesystemTags, p \in Providers, path \in Paths \ {NoPath}}
DetachBatches == {b \in SeqsUpTo(DetachOps, MaxBatch) : DistinctKeys(detachKeys(b))}

RemoveOps == {removeFilesystemOp(t) : t \in FilesystemTags}
RemoveBatches == {b \in SeqsUpTo(RemoveOps, MaxBatch) : DistinctKeys(removeKeys(b))}

\* params.RemoveFilesystemParams of a tag, as the controller may give them.
RemoveParams(t) ==
    {[Provider |-> p, Destroy |-> d, FilesystemId |-> <<"fs-id", t>>] : p \in Providers, d \in BOOLEAN}

KeysOf(paramsBySource) ==
    UNION {{paramKey(p) : p \in Range(paramsBySource[n])} : n \in DOMAIN paramsBySource}

\* The registry answers that matter to a run: a provider the run did not
\* consult is left at "dynamic".
Consulted(log) == {c.name : c \in {d \in Range(log) : d.api = "filesystemSource"}}

TagsOf(paramsBySource) ==
    UNION {{p.Tag : p \in Range(paramsBySource[n])} : n \in DOMAIN paramsBySource}

\* ------------------------------------------------------------------ actions
Snapshot == [filesystems |-> filesystems, filesystemAttachments |-> filesystemAttachments]
NoSnapshot == [filesystems |-> EmptyMap, filesystemAttachments |-> EmptyMap]

\* The juju home of the envcmd test suite (FakeJujuHomeSuite): JUJU_ENV is
\* not set, there is no current-environment file, and environments.yaml
\* names "erewhemos" as the default.  An unset variable reads as "".
SampleEnvName == "erewhemos"
NoFile == [exists |-> FALSE, data |-> << >>]
NoResult == [api |-> "", env |-> "", err |-> << >>]
FakeJujuHome ==
    [jujuEnv |-> "", current |-> NoFile, environments |-> [exists |-> TRUE, default |-> SampleEnvName],
     written |-> "", last |-> NoResult]

\* network.HostPort{}: the zero host and port.  The host ports of a call are
\* numbered from 1 in the order of the list.
ZeroHostPort == 0
NoReach ==
    [called |-> FALSE, servers |-> << >>, publicKeys |-> {}, best |-> ZeroHostPort, err |-> "",
     checks |-> << >>]

\* The schedule with nothing pending, nothing in flight and no call made.
NoCall == [api |-> "", arg |-> << >>, replaced |-> {}]
EmptySchedule == [pending |-> {}, inflight |-> {}, last |-> NoCall]

Init ==
    /\ pc = "idle"
    /\ filesystems = EmptyMap
    /\ filesystemAttachments = EmptyMap
    /\ ops = << >>
    /\ calls = << >>
    /\ err = Nil
    /\ before = NoSnapshot
    /\ schedule = EmptySchedule
    /\ home = FakeJujuHome
    /\ reach = NoReach

CreateFilesystems ==
    /\ pc = "idle"
    /\ UNCHANGED <<schedule, home, reach>>
    /\ \E batch \in CreateBatches, registry \in [Providers -> RegistryAnswers] :
        \E r \in {filesystemParamsBySource([i \in 1 .. Len(batch) |-> batch[i].args], registry)} :
        LET names == DOMAIN r.paramsBySource
            kept == TagsOf(r.paramsBySource)
        IN  /\ \A p \in Providers \ Consulted(r.calls) : registry[p] = "dynamic"
            /\ \E order \in Perms(names), invalid \in SUBSET kept :
                \E failed \in SUBSET (kept \ invalid), failSource \in {""} \cup names :
                    \E rejected \in SUBSET (kept \ (invalid \cup failed)), setInfoErr \in BOOLEAN :
                        \E out \in {createFilesystems(filesystems, batch,
                                        [registry |-> registry, order |-> order, invalid |-> invalid,
                                         failed |-> failed, failSource |-> failSource,
                                         rejected |-> rejected, setInfoErr |-> setInfoErr])} :
                            /\ ~(setInfoErr /\ rejected # {})
                            /\ ~(failSource # "" /\ (setInfoErr \/ rejected # {}))
                            /\ pc' = "createFilesystems"
                            /\ filesystems' = out.filesystems
                            /\ ops' = batch
                            /\ calls' = out.calls
                            /\ err' = out.err
                            /\ before' = Snapshot
                            /\ UNCHANGED filesystemAttachments

AttachFilesystems(batches) ==
    /\ pc = "idle"
    /\ UNCHANGED <<schedule, home, reach>>
    /\ \E batch \in batches, registry \in [Providers -> RegistryAnswers] :
        \E r \in {filesystemAttachmentParamsBySource([i \in 1 .. Len(batch) |-> attachArgs(batch[i])],
                                                      filesystems, registry)} :
        LET names == DOMAIN r.paramsBySource
            keys == KeysOf(r.paramsBySource)
        IN  /\ \A p \in Providers \ Consulted(r.calls) : registry[p] = "dynamic"
            /\ \E order \in Perms(names), failed \in SUBSET keys, failSource \in {""} \cup names :
                \E rejected \in SUBSET (keys \ failed), setInfoErr \in BOOLEAN :
                    \E out \in {attachFilesystems(filesystems, filesystemAttachments, batch,
                                    [registry |-> registry, order |-> order, failed |-> failed,
                                     failSource |-> failSource, rejected |-> rejected,
                                     setInfoErr |-> setInfoErr])} :
                        /\ ~(setInfoErr /\ rejected # {})
                        /\ ~(failSource # "" /\ (setInfoErr \/ rejected # {}))
                        /\ pc' = "attachFilesystems"
                        /\ filesystemAttachments' = out.filesystemAttachments
                        /\ ops' = batch
                        /\ calls' = out.calls
                        /\ err' = out.err
                        /\ before' = Snapshot
                        /\ UNCHANGED filesystems

DetachFilesystems(batches) ==
    /\ pc = "idle"
    /\ UNCHANGED <<schedule, home, reach>>
    /\ \E batch \in batches, registry \in [Providers -> RegistryAnswers], caas \in BOOLEAN :
        \E r \in {filesystemAttachmentParamsBySource([i \in 1 .. Len(batch) |-> batch[i].args],
                                                      filesystems, registry)} :
        LET names == DOMAIN r.paramsBySource
            keys == KeysOf(r.paramsBySource)
        IN  /\ \A p \in Providers \ Consulted(r.calls) : registry[p] = "dynamic"
            /\ \E order \in Perms(names), failed \in SUBSET keys, failSource \in {""} \cup names :
                \E removeErr \in BOOLEAN :
                    \E out \in {detachFilesystems(filesystems, filesystemAttachments, batch,
                                    [registry |-> registry, order |-> order, failed |-> failed,
                                     failSource |-> failSource, removeErr |-> removeErr, caas |-> caas])} :
                        /\ ~(failSource # "" /\ removeErr)
                        /\ pc' = "detachFilesystems"
                        /\ filesystemAttachments' = out.filesystemAttachments
                        /\ ops' = batch
                        /\ calls' = out.calls
                        /\ err' = out.err
                        /\ before' = Snapshot
                        /\ UNCHANGED filesystems

RemoveFilesystems ==
    /\ pc = "idle"
    /\ UNCHANGED <<schedule, home, reach>>
    /\ \E batch \in RemoveBatches, paramsErr \in BOOLEAN :
        LET tags == {batch[i].tag : i \in 1 .. Len(batch)}
        IN  \E removeParams \in [tags -> UNION {RemoveParams(t) : t \in tags}],
               registry \in [Providers -> RegistryAnswers] :
            \E r \in {filesystemParamsBySource(
                          removeAsFilesystemParams([i \in 1 .. Len(batch) |-> batch[i].tag],
                                                   [i \in 1 .. Len(batch) |-> removeParams[batch[i].tag]]),
                          registry)} :
            LET names == DOMAIN r.paramsBySource
                kept == TagsOf(r.paramsBySource)
            IN  /\ \A t \in tags : removeParams[t] \in RemoveParams(t)
                /\ \A p \in Providers \ Consulted(r.calls) : registry[p] = "dynamic"
                /\ ~(paramsErr /\ \E p \in Providers : registry[p] # "dynamic")
                /\ \E order \in Perms(names), failed \in SUBSET kept, failSource \in {""} \cup names :
                    \E failApi \in {"DestroyFilesystems", "ReleaseFilesystems"}, removeErr \in BOOLEAN :
                        \E out \in {removeFilesystems(batch,
                                        [registry |-> registry, order |-> order, failed |-> failed,
                                         failSource |-> failSource, failApi |-> failApi,
                                         removeErr |-> removeErr, removeParams |-> removeParams,
                                         paramsErr |-> paramsErr])} :
                            /\ ~(failSource # "" /\ removeErr)
                            /\ ~(failSource = "" /\ failApi # "DestroyFilesystems")
                            /\ pc' = "removeFilesystems"
                            /\ ops' = batch
                            /\ calls' = out.calls
                            /\ err' = out.err
                            /\ before' = Snapshot
                            /\ UNCHANGED <<filesystems, filesystemAttachments>>

\* The executor has returned; the loop waits for the next batch.
Return ==
    /\ pc # "idle"
    /\ pc' = "idle"
    /\ ops' = << >>
    /\ calls' = << >>
    /\ err' = Nil
    /\ before' = NoSnapshot
    /\ UNCHANGED <<filesystems, filesystemAttachments, schedule, home, reach>>

Next ==
    \/ CreateFilesystems
    \/ AttachFilesystems(AttachBatches)
    \/ DetachFilesystems(DetachBatches)
    \/ RemoveFilesystems
    \/ Return

Spec == Init /\ [][Next]_vars

\* ------------------------------------------------------------------ attachments across machines
\* The attach and detach executors run on batches that name the same
\* filesystems on more than one machine: one provider and one mount point,
\* machines 0 .. NumMachines.
AttachBatchesAcross ==
    {b \in SeqsUpTo({attachFilesystemOp(m, t, "loop", NoPath) :
                         m \in 0 .. NumMachines, t \in FilesystemTags}, MaxBatch) :
        DistinctKeys(attachKeys(b))}

DetachBatchesAcross ==
    {b \in SeqsUpTo({detachFilesystemOp(m, t, "loop", <<"mnt">>) :
                         m \in 0 .. NumMachines, t \in FilesystemTags}, MaxBatch) :
        DistinctKeys(detachKeys(b))}

AcrossNext ==
    \/ AttachFilesystems(AttachBatchesAcross)
    \/ DetachFilesystems(DetachBatchesAcross)
    \/ Return

AcrossSpec == Init /\ [][AcrossNext]_vars

\* ------------------------------------------------------------------ the operation schedule
\* The scheduler is driven by the worker loop: schedule(op) inserts or
\* replaces the pending operation of the operation's key; drainReady returns
\* the operations whose delay has elapsed and removes them from the pending
\* set (they are in flight until rescheduled or completed); reschedule(op)
\* reinserts an operation in flight with its backoff advanced; cancel(key)
\* removes the pending operation of a key.  Time is kept as the delay that
\* remains for each pending operation.
MinRetryDelay == 1
MaxRetryDelay == 2

\* A scheduleOp: an operation together with its Go type.
ScheduleOp(kind, op) == [kind |-> kind, op |-> op]

\* Faulty variant (not the code): the key tells the kinds of operation apart.
key_ByKind(sop) ==
    CASE sop.kind = "create" -> <<"createFilesystemOp", createKey(sop.op)>>
      [] sop.kind = "remove" -> <<"removeFilesystemOp", removeKey(sop.op)>>
      [] sop.kind = "attach" -> <<"attachFilesystemOp", attachKey(sop.op)>>
      [] sop.kind = "detach" -> <<"detachFilesystemOp", detachKey(sop.op)>>

\* op.key(): an interface value, the dynamic type and the value.
key(sop) ==
    CASE sop.kind = "create" -> <<"names.FilesystemTag", createKey(sop.op)>>
      [] sop.kind = "remove" -> <<"names.FilesystemTag", removeKey(sop.op)>>
      [] sop.kind = "attach" -> <<"params.MachineStorageId", attachKey(sop.op)>>
      [] sop.kind = "detach" -> <<"params.MachineStorageId", detachKey(sop.op)>>

\* Equality of two interface values: the same dynamic type and equal values.
SameKey(a, b) == a[1] = b[1] /\ a[2] = b[2]

\* The operations the worker loop schedules: all four kinds for the first
\* filesystem and its attachment to the first machine, and a create for
\* every other filesystem.
ScheduledOps ==
    {ScheduleOp("create", createFilesystemOp(t, "loop", NoVolume)) : t \in FilesystemTags}
    \cup {ScheduleOp("remove", removeFilesystemOp(0)),
          ScheduleOp("attach", attachFilesystemOp(0, 0, "loop", NoPath)),
          ScheduleOp("detach", detachFilesystemOp(0, 0, "loop", NoPath))}

ScheduledKeys == {key(sop) : sop \in ScheduledOps}

\* The pending entries of a key.
pendingFor(pending, k) == {e \in pending : SameKey(key(e.op), k)}

\* Faulty variant (not the code): an operation is added next to the pending
\* operation of its key.
scheduleAdd_Keeps(pending, sop, delay) ==
    pending \cup {[op |-> sop, delay |-> delay, wait |-> delay]}

\* Insert or replace: the pending operation of the key, if any, gives way.
scheduleAdd(pending, sop, delay) ==
    (pending \ pendingFor(pending, key(sop))) \cup {[op |-> sop, delay |-> delay, wait |-> delay]}

\* Faulty variant (not the code): the doubling has no ceiling.
nextDelay_Uncapped(d) ==
    IF d < MinRetryDelay THEN MinRetryDelay ELSE 2 * d

\* The backoff after one more failure: doubling up to the ceiling.
nextDelay(d) ==
    IF d < MinRetryDelay THEN MinRetryDelay
    ELSE IF 2 * d > MaxRetryDelay THEN MaxRetryDelay ELSE 2 * d

\* The pending entries whose delay has elapsed.
ready(pending) == {e \in pending : e.wait = 0}

Schedule ==
    \E sop \in ScheduledOps :
        /\ schedule' = [schedule EXCEPT
               !.pending = scheduleAdd(@, sop, 0),
               !.last = [api |-> "schedule", arg |-> sop,
                         replaced |-> {e.op.kind : e \in pendingFor(schedule.pending, key(sop))}]]
        /\ UNCHANGED <<ctxVars, home, reach>>

Reschedule ==
    \E e \in schedule.inflight :
        /\ schedule' = [schedule EXCEPT
               !.pending = scheduleAdd(@, e.op, nextDelay(e.delay)),
               !.inflight = @ \ {e},
               !.last = [api |-> "reschedule", arg |-> e.delay, replaced |-> {}]]
        /\ UNCHANGED <<ctxVars, home, reach>>

\* The operation in flight succeeded and is dropped.
Complete ==
    \E e \in schedule.inflight :
        /\ schedule' = [schedule EXCEPT
               !.inflight = @ \ {e},
               !.last = [api |-> "complete", arg |-> << >>, replaced |-> {}]]
        /\ UNCHANGED <<ctxVars, home, reach>>

\* One drain cycle at a time: the batch of the last drain has been handled.
DrainReady ==
    /\ schedule.inflight = {}
    /\ ready(schedule.pending) # {}
    /\ schedule' = [schedule EXCEPT
           !.pending = @ \ ready(@),
           !.inflight = ready(schedule.pending),
           !.last = [api |-> "drainReady", arg |-> << >>, replaced |-> {}]]
    /\ UNCHANGED <<ctxVars, home, reach>>

Cancel ==
    \E k \in ScheduledKeys :
        /\ schedule' = [schedule EXCEPT
               !.pending = @ \ pendingFor(@, k),
               !.last = [api |-> "cancel", arg |-> << >>, replaced |-> {}]]
        /\ UNCHANGED <<ctxVars, home, reach>>

\* Time passes: every remaining delay shrinks by one.
Tick ==
    /\ \E e \in schedule.pending : e.wait > 0
    /\ schedule' = [schedule EXCEPT
           !.pending = {[e EXCEPT !.wait = IF @ > 0 THEN @ - 1 ELSE 0] : e \in @},
           !.last = [api |-> "tick", arg |-> << >>, replaced |-> {}]]
    /\ UNCHANGED <<ctxVars, home, reach>>

ScheduleNext ==
    \/ Schedule
    \/ Reschedule
    \/ Complete
    \/ DrainReady
    \/ Cancel
    \/ Tick

ScheduleSpec == Init /\ [][ScheduleNext]_vars

\* ------------------------------------------------------------------ package envcmd
\* The environment names the tests use.
EnvNames == {"fubar", "magic", SampleEnvName}

\* WriteCurrentEnvironment writes the name followed by a newline.
fileOf(name) == [exists |-> TRUE, data |-> <<name, "\n">>]

\* ReadCurrentEnvironment: the content of the current-environment file
\* without its newline; "" when the file cannot be read.
ReadCurrentEnvironment(h) ==
    IF ~h.current.exists
    THEN ""
    ELSE IF Len(h.current.data) = 2 /\ h.current.data[2] = "\n" THEN h.current.data[1] ELSE ""

\* Faulty variant (not the code): the current-environment file is consulted
\* before JUJU_ENV.
GetDefaultEnvironment_FileFirst(h) ==
    IF ReadCurrentEnvironment(h) # "" THEN [env |-> ReadCurrentEnvironment(h), err |-> Nil]
    ELSE IF h.jujuEnv # "" THEN [env |-> h.jujuEnv, err |-> Nil]
    ELSE IF ~h.environments.exists THEN [env |-> "", err |-> Nil]
    ELSE [env |-> h.environments.default, err |-> Nil]

\* GetDefaultEnvironment: JUJU_ENV, then the current-environment file, then
\* the default of environments.yaml; no environments.yaml is not an error.
GetDefaultEnvironment(h) ==
    IF h.jujuEnv # "" THEN [env |-> h.jujuEnv, err |-> Nil]
    ELSE IF ReadCurrentEnvironment(h) # "" THEN [env |-> ReadCurrentEnvironment(h), err |-> Nil]
    ELSE IF ~h.environments.exists THEN [env |-> "", err |-> Nil]
    ELSE [env |-> h.environments.default, err |-> Nil]

\* os.Setenv(osenv.JujuEnvEnvKey, name)
Setenv ==
    \E name \in EnvNames :
        /\ home' = [home EXCEPT !.jujuEnv = name, !.last = NoResult]
        /\ UNCHANGED <<ctxVars, schedule, reach>>

WriteCurrentEnvironment ==
    \E name \in EnvNames :
        /\ home' = [home EXCEPT !.current = fileOf(name), !.written = name,
                                !.last = [api |-> "WriteCurrentEnvironment", env |-> "", err |-> Nil]]
        /\ UNCHANGED <<ctxVars, schedule, reach>>

\* os.Remove of environments.yaml
RemoveEnvironments ==
    /\ home.environments.exists
    /\ home' = [home EXCEPT !.environments = [exists |-> FALSE, default |-> ""], !.last = NoResult]
    /\ UNCHANGED <<ctxVars, schedule, reach>>

\* coretesting.WriteEnvironments: a configuration with or without a default.
WriteEnvironments ==
    \E default \in {"", SampleEnvName} :
        /\ home' = [home EXCEPT !.environments = [exists |-> TRUE, default |-> default],
                                !.last = NoResult]
        /\ UNCHANGED <<ctxVars, schedule, reach>>

CallReadCurrentEnvironment ==
    /\ home' = [home EXCEPT !.last = [api |-> "ReadCurrentEnvironment",
                                      env |-> ReadCurrentEnvironment(home), err |-> Nil]]
    /\ UNCHANGED <<ctxVars, schedule, reach>>

CallGetDefaultEnvironment ==
    /\ home' = [home EXCEPT !.last = [api |-> "GetDefaultEnvironment",
                                      env |-> GetDefaultEnvironment(home).env,
                                      err |-> GetDefaultEnvironment(home).err]]
    /\ UNCHANGED <<ctxVars, schedule, reach>>

EnvNext ==
    \/ Setenv
    \/ WriteCurrentEnvironment
    \/ RemoveEnvironments
    \/ WriteEnvironments
    \/ CallReadCurrentEnvironment
    \/ CallGetDefaultEnvironment

EnvSpec == Init /\ [][EnvNext]_vars

\* ------------------------------------------------------------------ package network/ssh
MaxHostPorts == 4

\* What listens at an address: nothing (a closed port), a TCP listener that
\* does not speak SSH, or an SSH server with one of two host keys.
ClosedPort == [kind |-> "closed", key |-> ""]
TCPServer == [kind |-> "tcp", key |-> ""]
SSHServer(privateKey) == [kind |-> "ssh", key |-> privateKey]
Servers == {ClosedPort, TCPServer, SSHServer("SSHKey1"), SSHServer("SSHKey2")}

\* The public key of a private host key.
PublicKeyOf(privateKey) ==
    CASE privateKey = "SSHKey1" -> "SSHPub1"
      [] privateKey = "SSHKey2" -> "SSHPub2"
      [] OTHER -> ""

ErrCannotConnect == "cannot connect to any address"

\* The addresses that accept a connection and, when public keys are given,
\* present a host key that is one of them.
Qualifying(servers, publicKeys) ==
    {i \in 1 .. Len(servers) :
        /\ servers[i].kind # "closed"
        /\ publicKeys # {} => (servers[i].kind = "ssh" /\ PublicKeyOf(servers[i].key) \in publicKeys)}

\* Faulty variant (not the code): the host key is not compared.
ReachableHostPort_AnySSH(servers, publicKeys) ==
    LET open == {i \in 1 .. Len(servers) :
                    servers[i].kind # "closed" /\ (publicKeys # {} => servers[i].kind = "ssh")}
    IN  IF open = {}
        THEN {[best |-> ZeroHostPort, err |-> ErrCannotConnect]}
        ELSE {[best |-> i, err |-> ""] : i \in open}

\* ssh.ReachableHostPort: the results the call may give, one per qualifying
\* address (the first to answer wins), or the zero HostPort and an error.
ReachableHostPort(servers, publicKeys) ==
    IF Qualifying(servers, publicKeys) = {}
    THEN {[best |-> ZeroHostPort, err |-> ErrCannotConnect]}
    ELSE {[best |-> i, err |-> ""] : i \in Qualifying(servers, publicKeys)}

\* A check of a test: the line, what is checked, and the value demanded.
Check(line, subject, expect) == [line |-> line, subject |-> subject, expect |-> expect]

\* The tests of the suite: the servers started, the public keys passed and
\* the checks made on the result.  TestAllUnreachable starts as many closed
\* ports as a list may hold.
Suite ==
    {[servers |-> [i \in 1 .. MaxHostPorts |-> ClosedPort], publicKeys |-> {},
      checks |-> <<Check(33, "err", ErrCannotConnect), Check(34, "best", ZeroHostPort)>>],
     [servers |-> <<SSHServer("SSHKey2")>>, publicKeys |-> {"SSHPub1"},
      checks |-> <<Check(44, "err", ErrCannotConnect), Check(45, "best", ZeroHostPort)>>],
     [servers |-> <<SSHServer("SSHKey1")>>, publicKeys |-> {"SSHPub1"},
      checks |-> <<Check(54, "err", ""), Check(55, "best", 1)>>],
     [servers |-> <<ClosedPort, TCPServer, SSHServer("SSHKey2"), SSHServer("SSHKey1")>>,
      publicKeys |-> {"SSHPub1"},
      checks |-> <<Check(70, "best", ZeroHostPort), Check(71, "err", ""), Check(72, "best", 4)>>],
     [servers |-> <<ClosedPort, TCPServer>>, publicKeys |-> {},
      checks |-> <<Check(83, "err", ""), Check(84, "best", 2)>>],
     [servers |-> <<ClosedPort, TCPServer>>, publicKeys |-> {"SSHPub1"},
      checks |-> <<Check(95, "err", ErrCannotConnect), Check(96, "best", ZeroHostPort)>>],
     [servers |-> <<SSHServer("SSHKey2")>>, publicKeys |-> {"SSHPub1", "SSHPub2"},
      checks |-> <<Check(105, "err", ""), Check(106, "best", 1)>>]}

\* A call of ssh.ReachableHostPort on any list of addresses.
CallReachableHostPort ==
    \E servers \in SeqsUpTo(Servers, MaxHostPorts), publicKeys \in SUBSET {"SSHPub1", "SSHPub2"} :
        \E r \in ReachableHostPort(servers, publicKeys) :
            /\ reach' = [called |-> TRUE, servers |-> servers, publicKeys |-> publicKeys, best |-> r.best,
                         err |-> r.err, checks |-> << >>]
            /\ UNCHANGED <<ctxVars, schedule, home>>

\* A test of the suite: the call, and the checks the test makes on its result.
RunTest ==
    \E t \in Suite :
        \E r \in ReachableHostPort(t.servers, t.publicKeys) :
            /\ reach' = [called |-> TRUE, servers |-> t.servers, publicKeys |-> t.publicKeys, best |-> r.best,
                         err |-> r.err, checks |-> t.checks]
            /\ UNCHANGED <<ctxVars, schedule, home>>

ReachNext ==
    \/ CallReachableHostPort
    \/ RunTest

ReachSpec == Init /\ [][ReachNext]_vars

\* ------------------------------------------------------------------ views of the trace of the last run
RECURSIVE Flatten(_)
Flatten(seqs) == IF Len(seqs) = 0 THEN << >> ELSE Head(seqs) \o Flatten(Tail(seqs))

CallsOf(api) == SelectSeq(calls, LAMBDA c : c.api = api)
ArgsOf(api) == Flatten([i \in 1 .. Len(CallsOf(api)) |-> CallsOf(api)[i].args])

\* The status records published, the operations rescheduled and the records
\* sent to the controller by the last run.
Published == ArgsOf("setStatus")
Rescheduled == ArgsOf("scheduleOperations")
PersistedFilesystems == ArgsOf("SetFilesystemInfo")
PersistedAttachments == ArgsOf("SetFilesystemAttachmentInfo")

StatusesOf(tag) == SelectSeq(Published, LAMBDA st : st.Tag = FilesystemString(tag))

\* The bulk provider calls of the last run, and whether one of them returned
\* a top-level error.
BulkApis == {"CreateFilesystems", "AttachFilesystems", "DetachFilesystems",
             "DestroyFilesystems", "ReleaseFilesystems"}
BulkCalls == {c \in Range(calls) : c.api \in BulkApis}
BulkCallFailed == \E c \in BulkCalls : c.err # Nil

\* The filesystem cache entry of a tag is what it was when the run started.
FilesystemUntouched(tag) ==
    /\ (tag \in DOMAIN filesystems) = (tag \in DOMAIN before.filesystems)
    /\ tag \in DOMAIN filesystems => filesystems[tag] = before.filesystems[tag]

\* The attachment cache entry of a key is what it was when the run started.
AttachmentUntouched(id) ==
    /\ (id \in DOMAIN filesystemAttachments) = (id \in DOMAIN before.filesystemAttachments)
    /\ id \in DOMAIN filesystemAttachments => filesystemAttachments[id] = before.filesystemAttachments[id]

\* ------------------------------------------------------------------ C1
\* What C1 says of the entity at position i of a bulk CreateFilesystems call
\* whose result carries an error.
CreateFailureHandled(c, i) ==
    LET tag == c.args[i].Tag
    IN  /\ Len(StatusesOf(tag)) = 1
        /\ StatusesOf(tag)[1] = EntityStatus(FilesystemString(tag), StatusPending, c.results[i].Error)
        /\ \E j \in 1 .. Len(ops) : ops[j].args.Tag = tag /\ ops[j] \in Range(Rescheduled)
        /\ \A rec \in Range(PersistedFilesystems) : rec.FilesystemTag # FilesystemString(tag)
        /\ FilesystemUntouched(tag)

\* C1 as stated: every entity whose per-entity result of a successful bulk
\* CreateFilesystems call carries an error gets exactly one status record,
\* 'pending' with the error text, is rescheduled, and is neither sent to
\* SetFilesystemInfo nor added to the local cache.
C1_AsStated ==
    pc = "createFilesystems" =>
        \A c \in BulkCalls : c.err = Nil =>
            \A i \in 1 .. Len(c.results) : c.results[i].Error # Nil => CreateFailureHandled(c, i)

\* C1 (amended): the same, in a batch none of whose bulk CreateFilesystems
\* calls (for this or another source) returns a top-level error.
C1_CreateFailure ==
    (pc = "createFilesystems" /\ ~BulkCallFailed) =>
        \A c \in BulkCalls :
            \A i \in 1 .. Len(c.results) : c.results[i].Error # Nil => CreateFailureHandled(c, i)

\* A batch over two sources with no top-level error, in which one entity's
\* creation failed and another's succeeded.
C1_Witness ==
    /\ pc = "createFilesystems"
    /\ ~BulkCallFailed
    /\ Cardinality(BulkCalls) = 2
    /\ \E c \in BulkCalls : \E i \in 1 .. Len(c.results) : c.results[i].Error # Nil
    /\ \E c \in BulkCalls : \E i \in 1 .. Len(c.results) : c.results[i].Error = Nil
    /\ Len(Published) = 2

\* ------------------------------------------------------------------ C2
\* What C2 says of the entity at position i of a bulk CreateFilesystems call
\* whose result carries no error.
CreateSuccessHandled(c, i) ==
    LET tag == c.args[i].Tag
    IN  /\ StatusesOf(tag) = <<EntityStatus(FilesystemString(tag), StatusAttaching, Nil)>>
        /\ Len(CallsOf("SetFilesystemInfo")) = 1
        /\ Len(SelectSeq(PersistedFilesystems, LAMBDA rec : rec.FilesystemTag = FilesystemString(tag))) = 1
        /\ err = Nil => (tag \in DOMAIN filesystems /\ filesystems[tag] = c.results[i].Filesystem)
        /\ \A op \in Range(Rescheduled) : op.args.Tag # tag

\* C2 as stated: every entity that passed validation and whose per-entity
\* result has no error gets the status 'attaching', is in the single bulk
\* SetFilesystemInfo call, is in the local cache once the batch has returned
\* without error, and is not rescheduled.
C2_AsStated ==
    pc = "createFilesystems" =>
        \A c \in BulkCalls : c.err = Nil =>
            \A i \in 1 .. Len(c.results) : c.results[i].Error = Nil => CreateSuccessHandled(c, i)

\* C2 (amended): the same, in a batch none of whose bulk CreateFilesystems
\* calls returns a top-level error.
C2_CreateSuccess ==
    (pc = "createFilesystems" /\ ~BulkCallFailed) =>
        \A c \in BulkCalls :
            \A i \in 1 .. Len(c.results) : c.results[i].Error = Nil => CreateSuccessHandled(c, i)

\* A batch that returned without error, in which a filesystem was created
\* and is now in the cache although the controller rejected its record.
C2_Witness ==
    /\ pc = "createFilesystems"
    /\ err = Nil
    /\ \E c \in BulkCalls : \E i \in 1 .. Len(c.results) :
        /\ c.results[i].Error = Nil
        /\ c.args[i].Tag \in DOMAIN filesystems
        /\ c.args[i].Tag \notin DOMAIN before.filesystems
    /\ \E c \in Range(calls) : c.api = "SetFilesystemInfo" /\ \E i \in 1 .. Len(c.results) : c.results[i].Error # Nil

\* ------------------------------------------------------------------ C3
ValidateCalls == {c \in Range(calls) : c.api = "ValidateFilesystemParams"}

\* What C3 says of an entity whose parameters the source rejected.
ValidationFailureHandled(v) ==
    LET tag == v.args[1].Tag
    IN  /\ StatusesOf(tag) = <<EntityStatus(FilesystemString(tag), StatusError, v.err)>>
        /\ \A c \in BulkCalls : \A i \in 1 .. Len(c.args) : c.args[i].Tag # tag
        /\ \A op \in Range(Rescheduled) : op.args.Tag # tag
        /\ \A rec \in Range(PersistedFilesystems) : rec.FilesystemTag # FilesystemString(tag)
        /\ FilesystemUntouched(tag)

\* C3 as stated: every entity rejected by the source's validation gets the
\* status 'error' with the validation message, is not in the bulk call, is
\* not rescheduled, not persisted and not added to the local cache.
C3_AsStated ==
    pc = "createFilesystems" =>
        \A v \in ValidateCalls : v.err # Nil => ValidationFailureHandled(v)

\* C3 (amended): the same, in a batch none of whose bulk CreateFilesystems
\* calls returns a top-level error.
C3_ValidationFailure ==
    (pc = "createFilesystems" /\ ~BulkCallFailed) =>
        \A v \in ValidateCalls : v.err # Nil => ValidationFailureHandled(v)

\* A batch in which one entity was rejected by validation and another of the
\* same source was submitted, with no top-level error.
C3_Witness ==
    /\ pc = "createFilesystems"
    /\ ~BulkCallFailed
    /\ \E v \in ValidateCalls : v.err # Nil /\ \E c \in BulkCalls : c.name = v.name
    /\ Len(Published) = 2

\* ------------------------------------------------------------------ C4
\* The entries of the trace from index k - n to k - 1.
EntriesBefore(k, n) == [j \in 1 .. n |-> calls[k - n + j - 1]]

\* The number of validation entries that immediately precede index k.
RECURSIVE ValidationsBefore(_)
ValidationsBefore(k) ==
    IF k = 1 THEN 0
    ELSE IF calls[k - 1].api = "ValidateFilesystemParams" THEN 1 + ValidationsBefore(k - 1) ELSE 0

\* The parameters that passed the validation block before index k, in the
\* order they were validated.
PassedBefore(k) ==
    LET block == SelectSeq(EntriesBefore(k, ValidationsBefore(k)), LAMBDA v : v.err = Nil)
    IN  [j \in 1 .. Len(block) |-> block[j].args[1]]

\* What each entry of the trace must contribute to the statuses, the
\* reschedules and the persisted records, attributed by position.
ExpectedStatuses(c) ==
    IF c.api = "ValidateFilesystemParams" /\ c.err # Nil
    THEN <<EntityStatus(FilesystemString(c.args[1].Tag), StatusError, c.err)>>
    ELSE IF c.api = "CreateFilesystems" /\ c.err = Nil
         THEN [i \in 1 .. Len(c.results) |->
                  IF c.results[i].Error # Nil
                  THEN EntityStatus(FilesystemString(c.args[i].Tag), StatusPending, c.results[i].Error)
                  ELSE EntityStatus(FilesystemString(c.args[i].Tag), StatusAttaching, Nil)]
         ELSE << >>

PositionsOf(c, failed) ==
    SelectSeq([i \in 1 .. Len(c.results) |-> i], LAMBDA i : (c.results[i].Error # Nil) = failed)

ExpectedReschedules(c) ==
    IF c.api = "CreateFilesystems" /\ c.err = Nil
    THEN [j \in 1 .. Len(PositionsOf(c, TRUE)) |-> c.args[PositionsOf(c, TRUE)[j]].Tag]
    ELSE << >>

ExpectedPersisted(c) ==
    IF c.api = "CreateFilesystems" /\ c.err = Nil
    THEN [j \in 1 .. Len(PositionsOf(c, FALSE)) |-> FilesystemString(c.args[PositionsOf(c, FALSE)[j]].Tag)]
    ELSE << >>

Flushed == Len(CallsOf("scheduleOperations")) > 0

\* C4: order preservation in create.  Every bulk CreateFilesystems call is
\* given exactly the entities of its source that passed validation, in
\* submission order; its i-th result is attributed to the i-th of them, so the
\* statuses, reschedules and persisted filesystems of a batch are exactly
\* those of the entities at the positions of the results, and a validation
\* error status carries the tag of the entity that failed validation.
C4_OrderPreservation ==
    pc = "createFilesystems" =>
        /\ \A k \in 1 .. Len(calls) : calls[k].api = "CreateFilesystems" => calls[k].args = PassedBefore(k)
        /\ Flushed =>
            /\ Published = Flatten([k \in 1 .. Len(calls) |-> ExpectedStatuses(calls[k])])
            /\ [j \in 1 .. Len(Rescheduled) |-> Rescheduled[j].args.Tag]
                   = Flatten([k \in 1 .. Len(calls) |-> ExpectedReschedules(calls[k])])
            /\ [j \in 1 .. Len(PersistedFilesystems) |-> PersistedFilesystems[j].FilesystemTag]
                   = Flatten([k \in 1 .. Len(calls) |-> ExpectedPersisted(calls[k])])

\* A flushed batch in which the first entity of a source was rejected by
\* validation and the second was submitted and got a result.
C4_Witness ==
    /\ pc = "createFilesystems"
    /\ Flushed
    /\ \E k \in 3 .. Len(calls) :
        /\ calls[k].api = "CreateFilesystems"
        /\ Len(calls[k].results) = 1
        /\ calls[k - 1].api = "ValidateFilesystemParams" /\ calls[k - 1].err = Nil
        /\ calls[k - 2].api = "ValidateFilesystemParams" /\ calls[k - 2].err # Nil

\* ------------------------------------------------------------------ C5
\* The resolver's own entry in the trace, and what it returned.
ResolverApis == {"filesystemParamsBySource", "filesystemAttachmentParamsBySource"}
Resolved == CHOOSE c \in Range(calls) : c.api \in ResolverApis
ResolverReturned == \E c \in Range(calls) : c.api \in ResolverApis /\ c.err = Nil

\* The registry reported the provider type as non-dynamic in this run.
NonDynamic(name) ==
    \E c \in Range(calls) : c.api = "filesystemSource" /\ c.name = name /\ c.err = errNonDynamic

ProviderCallApis == BulkApis \cup {"ValidateFilesystemParams"}

\* C5: partition completeness.  When filesystemParamsBySource returns no
\* error, the partition of a provider type is the input's parameters of that
\* type, in order, unless the type resolved as non-dynamic, in which case it
\* has no partition; a dropped parameter reaches no provider call, gets no
\* status and no reschedule, and the executor's error, if any, comes from a
\* bulk provider call or the controller, never from the dropping.
C5_PartitionCompleteness ==
    (pc = "createFilesystems" /\ ResolverReturned) =>
        LET params == Resolved.args
            paramsBySource == Resolved.results[1]
        IN  /\ DOMAIN paramsBySource \subseteq Providers
            /\ \A n \in Providers :
                LET mine == SelectSeq(params, LAMBDA q : q.Provider = n)
                IN  IF NonDynamic(n) \/ Len(mine) = 0
                    THEN n \notin DOMAIN paramsBySource
                    ELSE n \in DOMAIN paramsBySource /\ paramsBySource[n] = mine
            /\ \A q \in Range(params) : NonDynamic(q.Provider) =>
                /\ Len(StatusesOf(q.Tag)) = 0
                /\ \A op \in Range(Rescheduled) : op.args.Tag # q.Tag
                /\ \A c \in Range(calls) : c.api \in ProviderCallApis =>
                       \A i \in 1 .. Len(c.args) : c.args[i].Tag # q.Tag
            /\ err # Nil =>
                \E c \in Range(calls) : c.api \in {"CreateFilesystems", "SetFilesystemInfo"} /\ c.err # Nil

\* A batch with one parameter dropped (its provider is non-dynamic) and one
\* kept and created, returning no error.
C5_Witness ==
    /\ pc = "createFilesystems"
    /\ ResolverReturned
    /\ err = Nil
    /\ \E q \in Range(Resolved.args) : NonDynamic(q.Provider)
    /\ Len(PersistedFilesystems) = 1

\* ------------------------------------------------------------------ C6
\* C6 as stated: each parameter of a create batch is handed to the managed
\* source if it references a backing volume and to the dynamic source of its
\* provider type otherwise, whatever the other parameters of the batch.
C6_AsStated ==
    pc = "createFilesystems" =>
        \A c \in Range(calls) : c.api \in ProviderCallApis =>
            \A i \in 1 .. Len(c.args) :
                c.source = IF c.args[i].Volume # NoVolume
                           THEN ManagedSource
                           ELSE DynamicSource(c.args[i].Provider)

\* ------------------------------------------------------------------ C7
\* C7 as stated: in the attach and detach paths a provider type the registry
\* reports as non-dynamic is dropped from the partition and the resolution
\* returns no error.
C7_AsStated ==
    pc \in {"attachFilesystems", "detachFilesystems"} =>
        \A c \in Range(calls) : (c.api = "filesystemSource" /\ c.err = errNonDynamic) =>
            /\ ResolverReturned
            /\ c.name \notin DOMAIN Resolved.results[1]

\* ------------------------------------------------------------------ C8
\* The registry failed to resolve a provider type with an error other than
\* non-dynamic.
ResolutionFailed ==
    \E c \in Range(calls) : c.api = "filesystemSource" /\ c.err # Nil /\ c.err # errNonDynamic

\* C8: when source resolution fails with an error other than non-dynamic,
\* the executor (any of the four) returns an error, and the run has made no
\* bulk provider call, no status publication, no reschedule and no
\* controller persistence or removal call, and has left the caches as they
\* were.
C8_ResolutionErrorAborts ==
    (pc # "idle" /\ ResolutionFailed) =>
        /\ err # Nil
        /\ \A c \in Range(calls) :
               c.api \in ResolverApis \cup {"filesystemSource", "removeFilesystemParams"}
        /\ filesystems = before.filesystems
        /\ filesystemAttachments = before.filesystemAttachments

\* A remove batch of two entities whose second provider type failed to
\* resolve after the first had resolved.
C8_Witness ==
    /\ pc = "removeFilesystems"
    /\ ResolutionFailed
    /\ Len(ops) = 2
    /\ Len(CallsOf("filesystemSource")) = 2

\* ------------------------------------------------------------------ C9
\* C9 as stated: in the attach and detach paths every parameter whose
\* filesystem is in the local cache with a backing volume is submitted to
\* the managed source.
C9_AsStated ==
    pc \in {"attachFilesystems", "detachFilesystems"} =>
        \A c \in BulkCalls : \A i \in 1 .. Len(c.args) :
            (/\ c.args[i].Filesystem \in DOMAIN before.filesystems
             /\ before.filesystems[c.args[i].Filesystem].Volume # NoVolume)
            => c.source = ManagedSource

\* ------------------------------------------------------------------ C10
NoTopLevelError ==
    \A c \in Range(calls) : c.api \in BulkApis \cup {"SetFilesystemAttachmentInfo"} => c.err = Nil

\* What C10 says of the result at position i of a bulk AttachFilesystems call.
AttachResultHandled(c, i) ==
    LET p == c.args[i]
        id == paramKey(p)
        tag == FilesystemString(p.Filesystem)
    IN  IF c.results[i].Error # Nil
        THEN /\ EntityStatus(tag, StatusAttaching, c.results[i].Error) \in Range(Published)
             /\ \E j \in 1 .. Len(ops) : attachKey(ops[j]) = id /\ ops[j] \in Range(Rescheduled)
             /\ \A rec \in Range(PersistedAttachments) :
                    ~(rec.FilesystemTag = tag /\ rec.MachineTag = MachineString(p.Machine))
             /\ AttachmentUntouched(id)
        ELSE /\ EntityStatus(tag, StatusAttached, Nil) \in Range(Published)
             /\ \E rec \in Range(PersistedAttachments) :
                    rec.FilesystemTag = tag /\ rec.MachineTag = MachineString(p.Machine)
             /\ id \in DOMAIN filesystemAttachments
             /\ filesystemAttachments[id] = c.results[i].FilesystemAttachment
             /\ \E r \in Range(CallsOf("removePendingFilesystemAttachment")) : r.args = <<id>>

\* The controller rejected the record of the attachment of a parameter.
RecordRejected(p) ==
    \E c \in Range(CallsOf("SetFilesystemAttachmentInfo")) : \E i \in 1 .. Len(c.results) :
        /\ c.args[i].FilesystemTag = FilesystemString(p.Filesystem)
        /\ c.args[i].MachineTag = MachineString(p.Machine)
        /\ c.results[i].Error # Nil

\* C10 as stated, read in its most favourable scope (a batch in which no
\* bulk provider call and no controller call returns a top-level error, and
\* only the attachments whose own record the controller did not reject):
\* each per-entity result yields status 'attaching' and a reschedule on
\* error, and on success status 'attached', the record sent to the
\* controller, the attachment in the local cache and its pending marker
\* cleared.
C10_AsStated ==
    (pc = "attachFilesystems" /\ NoTopLevelError) =>
        \A c \in BulkCalls : \A i \in 1 .. Len(c.results) :
            ~RecordRejected(c.args[i]) => AttachResultHandled(c, i)

\* ------------------------------------------------------------------ C11
\* The removal parameters the controller gave for a tag in this run.
RemoveRequest(t) ==
    LET c == CHOOSE c \in Range(calls) : c.api = "removeFilesystemParams"
    IN  c.results[CHOOSE i \in 1 .. Len(c.args) : c.args[i] = t]

\* The number of times a filesystem id was submitted to a provider API.
Submissions(api, id) ==
    Cardinality({<<k, i>> \in (1 .. Len(calls)) \X (1 .. MaxBatch) :
                    calls[k].api = api /\ i <= Len(calls[k].args) /\ calls[k].args[i] = id})

PartitionEntries == {c \in Range(calls) : c.api = "partitionRemoveFilesystemParams"}

\* tags[i] and ids[i] belong to the same request of the source's batch.
Aligned(removeTags, removeParams, tags, ids) ==
    /\ Len(tags) = Len(ids)
    /\ \A i \in 1 .. Len(tags) :
           \E j \in 1 .. Len(removeTags) :
               removeTags[j] = tags[i] /\ removeParams[j].FilesystemId = ids[i]

\* The destroy and release sub-batches of a source: disjoint, together the
\* whole batch, destroy holding exactly the requests whose flag is set, tags
\* and ids aligned.
WellPartitioned(c) ==
    LET removeTags == c.args[1]
        removeParams == c.args[2]
    IN  /\ Range(c.results[1]) \cap Range(c.results[3]) = {}
        /\ Range(c.results[1]) \cup Range(c.results[3]) = Range(removeTags)
        /\ Len(c.results[1]) + Len(c.results[3]) = Len(removeTags)
        /\ \A j \in 1 .. Len(removeTags) :
               (removeTags[j] \in Range(c.results[1])) = removeParams[j].Destroy
        /\ Aligned(removeTags, removeParams, c.results[1], c.results[2])
        /\ Aligned(removeTags, removeParams, c.results[3], c.results[4])

\* A bulk removal call of a source is made with the ids of the matching
\* sub-batch of that source, at most once per source and API.
FromPartition(k) ==
    /\ \E c \in PartitionEntries :
           /\ c.name = calls[k].name
           /\ calls[k].args = IF calls[k].api = "DestroyFilesystems" THEN c.results[2] ELSE c.results[4]
    /\ \A j \in 1 .. Len(calls) :
           (calls[j].api = calls[k].api /\ calls[j].name = calls[k].name) => j = k

\* The requests whose source resolved: those in the resolver's partition.
ResolvedRequests ==
    UNION {Range(Resolved.results[1][n]) : n \in DOMAIN Resolved.results[1]}

\* C11 as stated: every removal request whose source resolved is submitted
\* to exactly one provider API, DestroyFilesystems iff its destroy flag is
\* set; the sub-batches of a source are disjoint, cover the source's batch
\* and keep tags and ids aligned.
C11_AsStated ==
    (pc = "removeFilesystems" /\ ResolverReturned) =>
        /\ \A c \in PartitionEntries : WellPartitioned(c)
        /\ \A q \in ResolvedRequests :
               /\ Submissions("DestroyFilesystems", RemoveRequest(q.Tag).FilesystemId)
                      = IF RemoveRequest(q.Tag).Destroy THEN 1 ELSE 0
               /\ Submissions("ReleaseFilesystems", RemoveRequest(q.Tag).FilesystemId)
                      = IF RemoveRequest(q.Tag).Destroy THEN 0 ELSE 1

\* C11 (amended): the partition is as stated in every run; a request is
\* never submitted to the other API nor twice; and it is submitted to its
\* API in every run in which no bulk provider call returns a top-level error.
C11_DestroyReleasePartition ==
    (pc = "removeFilesystems" /\ ResolverReturned) =>
        /\ \A c \in PartitionEntries : WellPartitioned(c)
        /\ \A k \in 1 .. Len(calls) :
               calls[k].api \in {"DestroyFilesystems", "ReleaseFilesystems"} => FromPartition(k)
        /\ \A q \in ResolvedRequests :
               /\ Submissions("DestroyFilesystems", RemoveRequest(q.Tag).FilesystemId)
                      <= IF RemoveRequest(q.Tag).Destroy THEN 1 ELSE 0
               /\ Submissions("ReleaseFilesystems", RemoveRequest(q.Tag).FilesystemId)
                      <= IF RemoveRequest(q.Tag).Destroy THEN 0 ELSE 1
               /\ ~BulkCallFailed =>
                      Submissions("DestroyFilesystems", RemoveRequest(q.Tag).FilesystemId)
                          + Submissions("ReleaseFilesystems", RemoveRequest(q.Tag).FilesystemId) = 1

\* A remove batch of one source holding a request to destroy and a request
\* to release, both submitted, with no top-level error.
C11_Witness ==
    /\ pc = "removeFilesystems"
    /\ ~BulkCallFailed
    /\ \E c \in PartitionEntries : Len(c.results[1]) = 1 /\ Len(c.results[3]) = 1
    /\ \E d, r \in BulkCalls :
           d.api = "DestroyFilesystems" /\ r.api = "ReleaseFilesystems" /\ d.name = r.name

\* ------------------------------------------------------------------ C12
\* The tags of the entities submitted by a bulk removal call, in the order
\* of its ids.
TagsOfRemoval(c) ==
    LET part == CHOOSE e \in PartitionEntries : e.name = c.name
    IN  IF c.api = "DestroyFilesystems" THEN part.results[1] ELSE part.results[3]

RemoveCalls == {c \in BulkCalls : c.api \in {"DestroyFilesystems", "ReleaseFilesystems"}}
QueuedForRemoval == Range(ArgsOf("removeEntities"))

\* What C12 says of the entity at position i of a bulk removal call.
RemoveResultHandled(c, i) ==
    LET tag == TagsOfRemoval(c)[i]
    IN  IF c.results[i].Error = Nil
        THEN /\ FilesystemString(tag) \in QueuedForRemoval
             /\ Len(StatusesOf(tag)) = 0
             /\ \A op \in Range(Rescheduled) : op.tag # tag
        ELSE /\ removeFilesystemOp(tag) \in Range(Rescheduled)
             /\ StatusesOf(tag) = <<EntityStatus(FilesystemString(tag), StatusDestroying, c.results[i].Error)>>
             /\ FilesystemString(tag) \notin QueuedForRemoval

\* C12 as stated: every entity submitted to DestroyFilesystems or
\* ReleaseFilesystems is queued for removal, with no status and no
\* reschedule, when its result is nil, and is rescheduled with the status
\* 'destroying' and the error text, and not queued, when its result is an
\* error.
C12_AsStated ==
    pc = "removeFilesystems" =>
        \A c \in RemoveCalls : \A i \in 1 .. Len(c.results) : RemoveResultHandled(c, i)

\* C12 (amended): the same, in a batch none of whose bulk removal calls
\* returns a top-level error.
C12_RemoveOutcome ==
    (pc = "removeFilesystems" /\ ~BulkCallFailed) =>
        \A c \in RemoveCalls : \A i \in 1 .. Len(c.results) : RemoveResultHandled(c, i)

\* A remove batch with no top-level error in which one removal succeeded
\* and another failed.
C12_Witness ==
    /\ pc = "removeFilesystems"
    /\ ~BulkCallFailed
    /\ \E c \in RemoveCalls : \E i \in 1 .. Len(c.results) : c.results[i].Error = Nil
    /\ \E c \in RemoveCalls : \E i \in 1 .. Len(c.results) : c.results[i].Error # Nil
    /\ Cardinality(QueuedForRemoval) = 1
    /\ Len(Rescheduled) = 1

\* ------------------------------------------------------------------ C13
DetachCalls == {c \in BulkCalls : c.api = "DetachFilesystems"}
QueuedAttachments == Range(ArgsOf("removeAttachments"))

\* What C13 says of the result at position i of a bulk DetachFilesystems call.
DetachResultHandled(c, i) ==
    LET p == c.args[i]
        id == paramKey(p)
        tag == FilesystemString(p.Filesystem)
    IN  IF c.results[i].Error = Nil
        THEN /\ EntityStatus(tag, StatusDetached, Nil) \in Range(Published)
             /\ id \in QueuedAttachments
             /\ err = Nil => id \notin DOMAIN filesystemAttachments
        ELSE /\ EntityStatus(tag, StatusDetaching, c.results[i].Error) \in Range(Published)
             /\ \E j \in 1 .. Len(ops) : detachKey(ops[j]) = id /\ ops[j] \in Range(Rescheduled)
             /\ AttachmentUntouched(id)
             /\ id \notin QueuedAttachments

\* C13 as stated: each per-entity result of a successful bulk
\* DetachFilesystems call yields, on nil, the status 'detached', the key
\* queued for removal and, once the removal has returned without error,
\* deleted from the local cache; on error, the status 'detaching' with the
\* error text, a reschedule, the key left in the cache and not queued.
C13_AsStated ==
    pc = "detachFilesystems" =>
        \A c \in DetachCalls : c.err = Nil =>
            \A i \in 1 .. Len(c.results) : DetachResultHandled(c, i)

\* C13 (amended): the same, in a batch none of whose bulk DetachFilesystems
\* calls (for this or another source) returns a top-level error.
C13_DetachOutcome ==
    (pc = "detachFilesystems" /\ ~BulkCallFailed) =>
        \A c \in DetachCalls : \A i \in 1 .. Len(c.results) : DetachResultHandled(c, i)

\* A detach batch that returned without error, in which one cached
\* attachment was detached and deleted from the cache and another failed to
\* detach and is still cached.
C13_Witness ==
    /\ pc = "detachFilesystems"
    /\ err = Nil
    /\ \E c \in DetachCalls : \E i \in 1 .. Len(c.results) :
           /\ c.results[i].Error = Nil
           /\ paramKey(c.args[i]) \in DOMAIN before.filesystemAttachments
           /\ paramKey(c.args[i]) \notin DOMAIN filesystemAttachments
    /\ \E c \in DetachCalls : \E i \in 1 .. Len(c.results) :
           /\ c.results[i].Error # Nil
           /\ paramKey(c.args[i]) \in DOMAIN filesystemAttachments

\* ------------------------------------------------------------------ C14
\* C14 is about a provider name of the partition that has no entry in the
\* map of sources.  This states that the case does not arise: whenever
\* filesystemAttachmentParamsBySource returns no error, every provider name
\* of its partition has a source, and in a run without top-level error every
\* provider name of the partition gets its DetachFilesystems call, in a CAAS
\* model or not.
DetachLookupNeverMisses ==
    (pc = "detachFilesystems" /\ ResolverReturned) =>
        /\ DOMAIN Resolved.results[1] \subseteq DOMAIN Resolved.results[2]
        /\ \A n \in DOMAIN Resolved.results[1] : Resolved.results[2][n] # NilSource
        /\ ~BulkCallFailed =>
               \A n \in DOMAIN Resolved.results[1] : \E c \in DetachCalls : c.name = n

\* ------------------------------------------------------------------ C15
\* The run was aborted by a top-level error before its flush: the fetch of
\* the removal parameters, the source resolution or a bulk provider call
\* failed.
AbortedBeforeFlush ==
    \E c \in Range(calls) :
        /\ c.api \in BulkApis \cup ResolverApis \cup {"removeFilesystemParams"}
        /\ c.err # Nil

\* The positions of the calls of an API in the trace.
IndexesOf(api) == {k \in 1 .. Len(calls) : calls[k].api = api}

\* C15: single flush.  No run makes the reschedule call or the status
\* publication more than once; a run of any of the four executors that is
\* not aborted by a top-level error makes each exactly once, and after every
\* provider call of the batch, whatever the number of sources.
C15_SingleFlush ==
    pc # "idle" =>
        /\ Cardinality(IndexesOf("scheduleOperations")) <= 1
        /\ Cardinality(IndexesOf("setStatus")) <= 1
        /\ ~AbortedBeforeFlush =>
            /\ Cardinality(IndexesOf("scheduleOperations")) = 1
            /\ Cardinality(IndexesOf("setStatus")) = 1
            /\ \A k \in 1 .. Len(calls) : calls[k].api \in ProviderCallApis =>
                   \A f \in IndexesOf("scheduleOperations") \cup IndexesOf("setStatus") : k < f

\* A run over two sources, each with its bulk call, flushed once.
C15_Witness ==
    /\ pc # "idle"
    /\ ~AbortedBeforeFlush
    /\ \E c, d \in BulkCalls : c.name # d.name
    /\ Cardinality(IndexesOf("scheduleOperations")) = 1
    /\ Len(Rescheduled) = 1

\* ------------------------------------------------------------------ C16
\* The calls a batch makes to act on what it accumulated: the flush and the
\* controller's persistence and removal interface.
OutcomeApis ==
    {"scheduleOperations", "setStatus", "SetFilesystemInfo", "SetFilesystemAttachmentInfo",
     "removePendingFilesystemAttachment", "removeAttachments", "removeEntities"}

\* C16: when a bulk provider call returns a top-level error the executor
\* returns an error; the failed call is the last call of the run, so no
\* further provider call follows; no reschedule, status publication or
\* controller persistence or removal call is made, and the local caches are
\* as they were, whatever the sources processed before.
C16_TopLevelErrorAborts ==
    (pc # "idle" /\ BulkCallFailed) =>
        /\ err # Nil
        /\ calls[Len(calls)].api \in BulkApis /\ calls[Len(calls)].err # Nil
        /\ \A c \in Range(calls) : c.api \notin OutcomeApis
        /\ filesystems = before.filesystems
        /\ filesystemAttachments = before.filesystemAttachments

\* A run whose first source was processed, with a per-entity result, before
\* the bulk call of its second source failed at top level.
C16_Witness ==
    /\ pc # "idle"
    /\ BulkCallFailed
    /\ \E c \in BulkCalls : c.err = Nil /\ Len(c.results) = 1
    /\ Cardinality({c.name : c \in BulkCalls}) = 2

\* ------------------------------------------------------------------ C17
\* The persistence calls of the last run that returned no top-level error
\* and rejected at least one record.
PartlyRejected ==
    {c \in Range(calls) :
        /\ c.api \in {"SetFilesystemInfo", "SetFilesystemAttachmentInfo"}
        /\ c.err = Nil
        /\ \E i \in 1 .. Len(c.results) : c.results[i].Error # Nil}

\* A record sent to the controller is in the local cache; an attachment's
\* pending marker is cleared as well.
RecordedLocally(api, rec) ==
    IF api = "SetFilesystemInfo"
    THEN \E t \in DOMAIN filesystems :
            /\ FilesystemString(t) = rec.FilesystemTag
            /\ filesystems[t].FilesystemId = rec.Info.FilesystemId
    ELSE \E id \in DOMAIN filesystemAttachments :
            /\ id.MachineTag = rec.MachineTag
            /\ id.AttachmentTag = rec.FilesystemTag
            /\ filesystemAttachments[id].Path = rec.Info.MountPoint
            /\ \E r \in Range(CallsOf("removePendingFilesystemAttachment")) : r.args = <<id>>

\* C17 as stated: when SetFilesystemInfo or SetFilesystemAttachmentInfo
\* returns no top-level error but rejects individual records, the executor
\* returns no error and every record the controller did not reject is in the
\* local cache, with its pending marker cleared.
C17_AsStated ==
    pc \in {"createFilesystems", "attachFilesystems"} =>
        \A c \in PartlyRejected :
            /\ err = Nil
            /\ \A i \in 1 .. Len(c.results) :
                   c.results[i].Error = Nil => RecordedLocally(c.api, c.args[i])

\* The half of C17 that createFilesystems follows: a rejected filesystem
\* record is logged only, the executor returns no error and every record of
\* the call, rejected or not, is in the filesystem cache.
CreateToleratesRejectedRecords ==
    pc = "createFilesystems" =>
        \A c \in PartlyRejected :
            /\ err = Nil
            /\ \A i \in 1 .. Len(c.results) : RecordedLocally(c.api, c.args[i])

\* ------------------------------------------------------------------ C18
\* The filesystems that were in the local cache when the batch started and
\* for which the batch holds a create operation.
AlreadyCreated ==
    {t \in DOMAIN before.filesystems : \E i \in 1 .. Len(ops) : ops[i].args.Tag = t}

\* C18 as stated: a create batch does not submit a filesystem that is
\* already in the local cache to the provider again, sends no second record
\* for its tag to the controller, and leaves its cache entry as it was.
C18_AsStated ==
    pc = "createFilesystems" =>
        \A t \in AlreadyCreated :
            /\ \A c \in BulkCalls : \A i \in 1 .. Len(c.args) : c.args[i].Tag # t
            /\ \A rec \in Range(PersistedFilesystems) : rec.FilesystemTag # FilesystemString(t)
            /\ FilesystemUntouched(t)

\* ------------------------------------------------------------------ C19
\* The key of an operation of the running executor's batch.
KeyOfOp(op) ==
    CASE pc = "createFilesystems" -> createKey(op)
      [] pc = "attachFilesystems" -> attachKey(op)
      [] pc = "detachFilesystems" -> detachKey(op)
      [] OTHER -> removeKey(op)

\* The key of the entity at position i of a bulk provider call.
KeyOfResult(c, i) ==
    CASE c.api = "CreateFilesystems" -> c.args[i].Tag
      [] c.api \in {"AttachFilesystems", "DetachFilesystems"} -> paramKey(c.args[i])
      [] OTHER -> TagsOfRemoval(c)[i]

\* The keys of the entities whose per-entity provider result was an error.
FailedKeys ==
    UNION {{KeyOfResult(c, i) : i \in {j \in 1 .. Len(c.results) : c.results[j].Error # Nil}} :
              c \in BulkCalls}

\* C19: in each of the four executors the operations passed to the
\* reschedule call are exactly the operations of the batch whose entity had
\* a per-entity provider error: each is an operation of the input batch,
\* found under the entity's key, none is nil, none appears twice, and every
\* failed entity's operation is among them, whatever ran before.
C19_ExactReschedule ==
    (pc # "idle" /\ Flushed) =>
        /\ Range(Rescheduled) = {op \in Range(ops) : KeyOfOp(op) \in FailedKeys}
        /\ NilOp \notin Range(Rescheduled)
        /\ \A j, k \in 1 .. Len(Rescheduled) : Rescheduled[j] = Rescheduled[k] => j = k

\* A batch of two entities of which the provider failed the second only, so
\* that one operation is rescheduled and it is not the first of the batch;
\* the run is not the first one (the filesystem cache is not empty, which
\* only an earlier run can cause).
C19_Witness ==
    /\ pc # "idle"
    /\ Flushed
    /\ Len(ops) = 2
    /\ Len(Rescheduled) = 1
    /\ Rescheduled[1] = ops[2]
    /\ DOMAIN before.filesystems # {}

\* ------------------------------------------------------------------ C20
\* C20: dedup.  After any sequence of schedule, reschedule, drain and cancel
\* calls the schedule holds at most one pending operation per key, and right
\* after an operation was scheduled the pending operation of its key is that
\* operation, with a fresh backoff, whatever was pending for the key before.
C20_Dedup ==
    /\ \A e1, e2 \in schedule.pending : SameKey(key(e1.op), key(e2.op)) => e1 = e2
    /\ schedule.last.api = "schedule" =>
           pendingFor(schedule.pending, key(schedule.last.arg))
               = {[op |-> schedule.last.arg, delay |-> 0, wait |-> 0]}

\* An operation was scheduled for a key that had a pending operation, which
\* it replaced; two keys have a pending operation, one of them rescheduled
\* after a failure.
C20_Witness ==
    /\ schedule.last.api = "schedule"
    /\ schedule.last.replaced # {}
    /\ Cardinality(schedule.pending) = 2
    /\ \E e \in schedule.pending : e.delay > 0

\* ------------------------------------------------------------------ C21
\* The step reschedules the operation in flight e.
Rescheduling(e) ==
    /\ e \in schedule.inflight
    /\ schedule'.last.api = "reschedule"
    /\ schedule'.inflight = schedule.inflight \ {e}

\* C21: retry progression.  No operation, pending or in flight, ever has a
\* backoff delay above the ceiling, and every reschedule of an operation in
\* flight leaves it pending with a delay that is at least the delay it had
\* after its previous reschedule.
C21_RetryProgression ==
    /\ [](\A e \in schedule.pending \cup schedule.inflight : e.delay <= MaxRetryDelay)
    /\ [][\A e \in schedule.inflight :
              Rescheduling(e) =>
                  \E n \in pendingFor(schedule'.pending, key(e.op)) :
                      /\ n.op = e.op
                      /\ n.delay >= e.delay
                      /\ n.delay <= MaxRetryDelay
                      /\ n.wait = n.delay]_vars

\* An operation whose delay had reached the ceiling failed again and was
\* rescheduled: it is pending with the ceiling as its delay.
C21_Witness ==
    /\ schedule.last.api = "reschedule"
    /\ schedule.last.arg = MaxRetryDelay
    /\ \E e \in schedule.pending : e.delay = MaxRetryDelay /\ e.wait = MaxRetryDelay

\* ------------------------------------------------------------------ C22
\* The parameters submitted to a provider by the bulk calls of the last run.
SubmittedParams == UNION {Range(c.args) : c \in BulkCalls}

PathFromProviderId ==
    pc = "attachFilesystems" =>
        \A p \in SubmittedParams : \A i \in 1 .. Len(ops) :
            (/\ attachKey(ops[i]) = paramKey(p)
             /\ ops[i].args.Path = NoPath
             /\ p.Filesystem \in DOMAIN before.filesystems)
            => p.Path = filepathJoin(StorageDir, before.filesystems[p.Filesystem].FilesystemId)

\* ------------------------------------------------------------------ C23
StatusVocabulary ==
    {StatusPending, StatusAttaching, StatusAttached, StatusDetaching, StatusDetached,
     StatusDestroying, StatusError}

\* The status that reports a per-entity provider failure in each executor.
InProgressVerb ==
    CASE pc = "createFilesystems" -> StatusPending
      [] pc = "attachFilesystems" -> StatusAttaching
      [] pc = "detachFilesystems" -> StatusDetaching
      [] OTHER -> StatusDestroying

\* The filesystem tag of the entity at position i of a bulk provider call.
TagOfResult(c, i) ==
    CASE c.api = "CreateFilesystems" -> c.args[i].Tag
      [] c.api \in {"AttachFilesystems", "DetachFilesystems"} -> c.args[i].Filesystem
      [] OTHER -> TagsOfRemoval(c)[i]

\* C23: every status record published by an executor carries a status of
\* the fixed vocabulary, and in a run that published its statuses every
\* per-entity provider failure is reported by a record with the in-progress
\* verb of the executor and the text of the error, and no record for that
\* entity carries 'error'.
C23_StatusVocabulary ==
    pc # "idle" =>
        /\ \A st \in Range(Published) : st.Status \in StatusVocabulary
        /\ Flushed =>
            \A c \in BulkCalls : \A i \in 1 .. Len(c.results) :
                c.results[i].Error # Nil =>
                    /\ EntityStatus(FilesystemString(TagOfResult(c, i)), InProgressVerb,
                                    c.results[i].Error) \in Range(Published)
                    /\ \A st \in Range(Published) :
                           st.Tag = FilesystemString(TagOfResult(c, i)) => st.Status # StatusError

\* An attach run that published the failure of one attachment and the
\* success of another.
C23_Witness ==
    /\ pc = "attachFilesystems"
    /\ Flushed
    /\ \E st \in Range(Published) : st.Status = StatusAttaching /\ st.Info # Nil
    /\ \E st \in Range(Published) : st.Status = StatusAttached

\* ------------------------------------------------------------------ C24
\* The name the precedence of C24 gives: JUJU_ENV if set, otherwise the name
\* last written by WriteCurrentEnvironment, otherwise the default of
\* environments.yaml, otherwise the empty string.
ExpectedDefault ==
    IF home.jujuEnv # "" THEN home.jujuEnv
    ELSE IF home.written # "" THEN home.written
    ELSE IF home.environments.exists THEN home.environments.default
    ELSE ""

\* C24: GetDefaultEnvironment returns, without error, the name given by the
\* precedence JUJU_ENV, name written by WriteCurrentEnvironment, default of
\* environments.yaml, empty string; ReadCurrentEnvironment returns the last
\* name written by WriteCurrentEnvironment, or the empty string when none
\* was written.
C24_DefaultEnvironment ==
    /\ home.last.api = "GetDefaultEnvironment" =>
           home.last.env = ExpectedDefault /\ home.last.err = Nil
    /\ home.last.api = "ReadCurrentEnvironment" => home.last.env = home.written

\* Both JUJU_ENV and the current-environment file are set, to different
\* names, and GetDefaultEnvironment was called.
C24_Witness ==
    /\ home.last.api = "GetDefaultEnvironment"
    /\ home.jujuEnv = "magic"
    /\ home.written = "fubar"
    /\ home.last.env = "magic"

\* ------------------------------------------------------------------ C25
\* A check of a test is met by the result of the call.
CheckMet(ch) ==
    IF ch.subject = "best" THEN reach.best = ch.expect ELSE reach.err = ch.expect

\* C25 as stated, held against the suite: ReachableHostPort returns an
\* address of the list only if it accepted a connection and, when public
\* keys are given, presented a matching host key; it returns the zero
\* HostPort and the error 'cannot connect to any address' when no address
\* qualifies; so every check the suite makes on the result of a call is met.
C25_AsStated ==
    reach.called =>
        /\ reach.best # ZeroHostPort =>
               /\ reach.best \in Qualifying(reach.servers, reach.publicKeys)
               /\ reach.err = ""
        /\ Qualifying(reach.servers, reach.publicKeys) = {} =>
               reach.best = ZeroHostPort /\ reach.err = ErrCannotConnect
        /\ \A ch \in Range(reach.checks) : CheckMet(ch)

\* Every check of the suite other than the one at line 70 is met by the
\* result the claim gives.
SuiteAgreesElsewhere ==
    \A ch \in Range(reach.checks) : ch.line # 70 => CheckMet(ch)

\* ------------------------------------------------------------------ C26
\* C26: after any sequence of attach and detach batches the local attachment
\* cache holds at most one attachment per filesystem tag: no two cached
\* attachments name the same filesystem on different machines.
C26_AsStated ==
    \A a, b \in DOMAIN filesystemAttachments :
        a.AttachmentTag = b.AttachmentTag => a = b

\* ------------------------------------------------------------------ C27
\* The controller's persistence and removal calls.
PersistenceApis ==
    {"SetFilesystemInfo", "SetFilesystemAttachmentInfo", "removeEntities", "removeAttachments"}

\* The positions of the persistence and removal calls of the last run, and
\* those that returned a top-level error.
PersistenceCalls == {k \in 1 .. Len(calls) : calls[k].api \in PersistenceApis}
PersistenceFailed == {k \in PersistenceCalls : calls[k].err # Nil}

\* C27: within a batch the reschedule call comes first, the status
\* publication next, then the controller persistence or removal call, and the
\* cache update last.  When the persistence or removal call returns a
\* top-level error, the reschedules and the status records have been flushed
\* before it, the call is the last of the run, the executor returns an error
\* and both local caches are as they were; the caches change only in a run
\* whose persistence or removal call returned without a top-level error.
C27_FlushBeforePersistence ==
    pc # "idle" =>
        /\ \A k \in PersistenceCalls :
                /\ k >= 3
                /\ calls[k - 2].api = "scheduleOperations"
                /\ calls[k - 1].api = "setStatus"
                /\ \A j \in 1 .. Len(calls) :
                        calls[j].api \in {"scheduleOperations", "setStatus"} => j < k
        /\ \A k \in PersistenceFailed :
                /\ k = Len(calls)
                /\ err # Nil
                /\ filesystems = before.filesystems
                /\ filesystemAttachments = before.filesystemAttachments
        /\ (filesystems # before.filesystems \/ filesystemAttachments # before.filesystemAttachments)
                => \E k \in PersistenceCalls : calls[k].err = Nil

\* A run that flushed a reschedule and a status record and then lost the
\* connection in its persistence or removal call.
C27_Witness ==
    /\ pc # "idle"
    /\ PersistenceFailed # {}
    /\ Len(Rescheduled) > 0
    /\ Len(Published) > 1

\* ------------------------------------------------------------------ C28
\* The operation of the input batch reached the controller's removal call or
\* the reschedule call.
RemovedOrRescheduled(op) ==
    \/ FilesystemString(op.tag) \in QueuedForRemoval
    \/ op \in Range(Rescheduled)

\* C28 as stated: after removeFilesystems returns without error, every
\* filesystem tag of the input batch has been passed to the controller for
\* removal or had its operation passed to the reschedule call.
C28_AsStated ==
    (pc = "removeFilesystems" /\ err = Nil) =>
        \A i \in 1 .. Len(ops) : RemovedOrRescheduled(ops[i])

\* C28 (amended): after removeFilesystems returns without error, every
\* filesystem tag of the input batch whose provider type the registry did not
\* report as non-dynamic has been passed to the controller for removal or had
\* its operation passed to the reschedule call.
C28_NoRemoveLost ==
    (pc = "removeFilesystems" /\ err = Nil) =>
        \A i \in 1 .. Len(ops) :
            \/ NonDynamic(RemoveRequest(ops[i].tag).Provider)
            \/ RemovedOrRescheduled(ops[i])

\* A run of removeFilesystems that returned without error after one entity
\* was removed from the provider and the removal of another failed.
C28_Witness ==
    /\ pc = "removeFilesystems"
    /\ err = Nil
    /\ Len(ops) = 2
    /\ \E i, j \in 1 .. Len(ops) :
           /\ FilesystemString(ops[i].tag) \in QueuedForRemoval
           /\ ops[j] \in Range(Rescheduled)

\* ------------------------------------------------------------------ C29
\* Where filesystemParamsBySource sends a parameter of the list: to the
\* source bound to its provider name when it is in the partition, nowhere (the
\* nil source) when it was dropped; a resolution error sends nothing anywhere.
RouteOf(params, registry, q) ==
    LET routed(r) ==
            IF r.err # Nil
            THEN [kind |-> "error", provider |-> ""]
            ELSE IF q.Provider \in DOMAIN r.paramsBySource
                    /\ q \in Range(r.paramsBySource[q.Provider])
                 THEN r.filesystemSources[q.Provider]
                 ELSE NilSource
    IN  routed(filesystemParamsBySource(params, registry))

\* C29 as stated: routing is independent of submission order.  For the
\* parameters of a create batch and any registry, filesystemParamsBySource
\* sends every parameter to the same source (managed, dynamic or dropped) in
\* whatever order the parameters are listed.
C29_AsStated ==
    pc = "createFilesystems" =>
        LET params == [i \in 1 .. Len(ops) |-> ops[i].args]
        IN  \A registry \in [Providers -> RegistryAnswers], order \in Perms(1 .. Len(ops)) :
                \A i \in 1 .. Len(ops) :
                    RouteOf(params, registry, params[i])
                        = RouteOf([k \in 1 .. Len(ops) |-> params[order[k]]], registry, params[i])

\* ------------------------------------------------------------------ C30
\* C30: whenever filesystemAttachmentParamsBySource returns without error,
\* every provider name that is a key of the partition it returns is a key of
\* the map of sources it returns; so in detachFilesystems the source lookup
\* never misses: no run ends in a call on a missing source, and in a run
\* without top-level error every provider name of the partition gets its
\* DetachFilesystems call, the skip of a CAAS model leaving none out.
C30_SourcesCoverPartition ==
    (pc \in {"attachFilesystems", "detachFilesystems"} /\ ResolverReturned) =>
        /\ DOMAIN Resolved.results[1] \subseteq DOMAIN Resolved.results[2]
        /\ err # <<"panic: nil filesystem source">>
        /\ (pc = "detachFilesystems" /\ ~BulkCallFailed) =>
               {c.name : c \in DetachCalls} = DOMAIN Resolved.results[1]

\* A detach run whose resolver returned a partition of two provider names,
\* one bound to the managed source and one to a source of the registry.
C30_Witness ==
    /\ pc = "detachFilesystems"
    /\ ResolverReturned
    /\ Cardinality(DOMAIN Resolved.results[1]) = 2
    /\ \E n \in DOMAIN Resolved.results[2] : Resolved.results[2][n] = ManagedSource
    /\ \E n \in DOMAIN Resolved.results[2] : Resolved.results[2][n] = DynamicSource(n)

\* ------------------------------------------------------------------ C31
\* The parameters of a provider name in the list given to the resolver, in
\* order, and the provider names whose first parameter refers to a
\* filesystem that the local cache did not hold when the run started.
ParamsOfName(n) == SelectSeq(Resolved.args, LAMBDA q : q.Provider = n)
UnknownFirst ==
    {n \in {q.Provider : q \in Range(Resolved.args)} :
        ParamsOfName(n)[1].Filesystem \notin DOMAIN before.filesystems}

AttachmentCalls == {c \in BulkCalls : c.api \in {"AttachFilesystems", "DetachFilesystems"}}

\* C31: in the attach and detach paths, a provider name whose first
\* parameter refers to a filesystem absent from the local cache is bound to
\* the managed source and the registry is not consulted for it; the bulk
\* call made for that name goes to the managed source with every parameter of
\* the batch of that name, and it is made in every run in which the resolver
\* returned and no bulk call failed at top level.
C31_UnknownFilesystemManaged ==
    pc \in {"attachFilesystems", "detachFilesystems"} =>
        \A n \in UnknownFirst :
            /\ \A c \in Range(calls) : c.api = "filesystemSource" => c.name # n
            /\ ResolverReturned =>
                   /\ Resolved.results[2][n] = ManagedSource
                   /\ \A c \in AttachmentCalls :
                          c.name = n => c.source = ManagedSource /\ c.args = ParamsOfName(n)
                   /\ ~BulkCallFailed => \E c \in AttachmentCalls : c.name = n

\* An attach run on two parameters of one provider name, the first for a
\* filesystem the cache does not hold and the second for a cached filesystem
\* without a backing volume, both submitted to the managed source.
C31_Witness ==
    /\ pc = "attachFilesystems"
    /\ ResolverReturned
    /\ \E n \in UnknownFirst :
           /\ Len(ParamsOfName(n)) = 2
           /\ ParamsOfName(n)[2].Filesystem \in DOMAIN before.filesystems
           /\ before.filesystems[ParamsOfName(n)[2].Filesystem].Volume = NoVolume
           /\ \E c \in AttachmentCalls : c.name = n /\ c.source = ManagedSource /\ Len(c.args) = 2

\* ------------------------------------------------------------------ C32
\* The provider reported success for the attachment key in a bulk call of
\* the given API in this run.
ProviderSucceeded(api, id) ==
    \E c \in BulkCalls :
        /\ c.api = api
        /\ c.err = Nil
        /\ \E i \in 1 .. Len(c.results) : c.results[i].Error = Nil /\ paramKey(c.args[i]) = id

\* The controller accepted the record of the attachment key: the call
\* returned no top-level error and no error for the record.
ControllerAccepted(id) ==
    \E c \in Range(CallsOf("SetFilesystemAttachmentInfo")) :
        /\ c.err = Nil
        /\ \E i \in 1 .. Len(c.args) :
               /\ c.args[i].MachineTag = id.MachineTag
               /\ c.args[i].FilesystemTag = id.AttachmentTag
               /\ c.results[i].Error = Nil

\* The controller's removal call was given the key and returned no
\* top-level error.
ControllerRemoved(id) ==
    \E c \in Range(CallsOf("removeAttachments")) : c.err = Nil /\ id \in Range(c.args)

\* C32: the local attachment cache changes only as follows.  A key enters
\* the cache (or its entry is rewritten) only in an attach run in which the
\* provider reported a successful attach for it and the controller accepted
\* its record without per-record error; a key leaves the cache only in a
\* detach run in which the provider reported a successful detach for it and
\* the controller removal call returned no top-level error.  So a failed
\* attach adds no key and a failed detach removes none, and since the cache
\* starts empty every key in it was attached and accepted.
C32_AttachmentCache ==
    pc # "idle" =>
        \A id \in DOMAIN filesystemAttachments \cup DOMAIN before.filesystemAttachments :
            /\ (id \in DOMAIN filesystemAttachments /\ ~AttachmentUntouched(id)) =>
                   /\ pc = "attachFilesystems"
                   /\ ProviderSucceeded("AttachFilesystems", id)
                   /\ ControllerAccepted(id)
            /\ id \notin DOMAIN filesystemAttachments =>
                   /\ pc = "detachFilesystems"
                   /\ ProviderSucceeded("DetachFilesystems", id)
                   /\ ControllerRemoved(id)

\* A detach run on two cached attachments: the detach of one succeeded and
\* its key left the cache, the detach of the other failed and its key stayed.
C32_Witness ==
    /\ pc = "detachFilesystems"
    /\ \E id \in DOMAIN before.filesystemAttachments : id \notin DOMAIN filesystemAttachments
    /\ \E id \in FailedKeys : id \in DOMAIN filesystemAttachments

\* ------------------------------------------------------------------ C33
\* The entity an operation is about: a filesystem for create and remove, the
\* attachment of a filesystem to a machine for attach and detach (machine -1
\* stands for no machine).
EntityOf(sop) ==
    CASE sop.kind = "create" -> [machine |-> -1, filesystem |-> sop.op.args.Tag]
      [] sop.kind = "remove" -> [machine |-> -1, filesystem |-> sop.op.tag]
      [] OTHER -> [machine |-> sop.op.args.Machine, filesystem |-> sop.op.args.Filesystem]

\* The operations of the four kinds over every filesystem, machine, provider,
\* volume and path of the bounds.
OpsOfAllKinds ==
    {ScheduleOp("create", op) : op \in CreateOps} \cup {ScheduleOp("remove", op) : op \in RemoveOps}
    \cup {ScheduleOp("attach", op) : op \in AttachOps} \cup {ScheduleOp("detach", op) : op \in DetachOps}

\* C33: operation keys collide across kinds.  Two operations have equal
\* keys exactly when they are about the same entity, whatever their kinds: an
\* attach and a detach of the same machine and filesystem, a create and a
\* remove of the same filesystem tag.  So the schedule never holds two
\* pending operations of one entity, and an operation just scheduled is the
\* only pending operation of its entity: a detach replaces a pending attach
\* of the same pair and a remove replaces a pending create.
C33_KeysCollideAcrossKinds ==
    /\ \A a, b \in OpsOfAllKinds : SameKey(key(a), key(b)) <=> EntityOf(a) = EntityOf(b)
    /\ \A e1, e2 \in schedule.pending : EntityOf(e1.op) = EntityOf(e2.op) => e1 = e2
    /\ schedule.last.api = "schedule" =>
           {e \in schedule.pending : EntityOf(e.op) = EntityOf(schedule.last.arg)}
               = {[op |-> schedule.last.arg, delay |-> 0, wait |-> 0]}

\* A detach was scheduled while an attach of the same machine and filesystem
\* was pending, and took its place.
C33_Witness ==
    /\ schedule.last.api = "schedule"
    /\ schedule.last.arg.kind = "detach"
    /\ schedule.last.replaced = {"attach"}
    /\ \A e \in schedule.pending : e.op.kind # "attach"

====
